---------------------------- MODULE Spec2Model ----------------------------
(***************************************************************************)
(* A model of the hunk absorption engine of cmt (github.com/gussy/cmt):    *)
(* the oracle response post-processing (internal/ai), the interactive      *)
(* review model (internal/ui), the diff parser, the fixup applier and the  *)
(* backup/undo machinery (internal/git, cmd/cmt).                          *)
(*                                                                         *)
(* Conventions.  Go slices are 0-based; sequences here are 1-based, so the *)
(* Go element s[i] is s[i+1] here and hunk indices keep their Go values.   *)
(* Confidence values are held in tenths (0.7 is 7).  Text is a sequence of *)
(* one-character strings wherever the code inspects prefixes.              *)
(***************************************************************************)
EXTENDS Integers, Sequences, FiniteSets, TLC

VARIABLES
    mode,          \* which component this behaviour exercises
    req,           \* ai.AbsorbRequest handed to parseAbsorbResponse
    jsonResp,      \* absorbJSONResponse: the decoded oracle document
    parseOut,      \* what parseAbsorbResponse produced
    heap,          \* backing arrays of the Go slices of the review
    callerResp,    \* the *ai.AbsorbResponse runAbsorb passes to ShowAbsorbReview
    m,             \* ui.AbsorbReviewModel
    reviewPc,      \* position of runAbsorb around step 8
    absorbResp,    \* the response runAbsorb goes on to apply after step 8
    hist,          \* history of the review: what the reviewer did
    repo,          \* the git repository: index, history, refs, undo record
    plan,          \* the accepted AbsorbResponse that step 10 applies
    cfg,           \* flags and configuration of the absorb command
    run,           \* runAbsorb's position and locals from step 10 on
    attempts,      \* history: the ApplyHunksAsFixup calls made, in order
    injected,      \* history: some git command failed for an outside reason
    clock,         \* time.Now().Unix()
    chk,           \* CheckRebaseConflicts: the branches and the call's position
    diff,          \* the text handed to SplitDiffIntoHunks, as lines
    split,         \* the hunks SplitDiffIntoHunks returned
    filt,          \* preprocess.Process: its arguments and what it returned
    undoFile       \* .git/cmt/absorb-undo: the state saved, the bytes, the state loaded

parseVars == <<req, jsonResp, parseOut>>
reviewVars == <<heap, callerResp, m, reviewPc, absorbResp, hist>>
repoVars == <<repo, plan, cfg, run, attempts, injected, clock>>
auxVars == <<chk, diff, split, filt, undoFile>>
vars == <<mode, parseVars, reviewVars, repoVars, auxVars>>

(***************************************************************************)
(* Bounds of the model.                                                    *)
(***************************************************************************)
NumHunks == 2
MaxAssign == 2
ShaLen == 10

(***************************************************************************)
(* Program constants.                                                      *)
(***************************************************************************)
ShaPrefixLen == 8
DefaultThreshold == 7

(***************************************************************************)
(* Generic helpers on sequences (strings.HasPrefix, slices).               *)
(***************************************************************************)
HasPrefix(s, p) == Len(p) <= Len(s) /\ SubSeq(s, 1, Len(p)) = p

Range(s) == {s[i] : i \in 1..Len(s)}

SeqsUpTo(S, n) == UNION {[1..k -> S] : k \in 0..n}

Occurrences(s, x) == Cardinality({i \in 1..Len(s) : s[i] = x})

(***************************************************************************)
(* Candidate commits (git.CommitInfo).  Three commits; the third shares    *)
(* its first ShaPrefixLen characters with the first.                       *)
(***************************************************************************)
Sha(first, tail) == [i \in 1..ShaLen |-> IF i <= ShaPrefixLen THEN first ELSE tail]

Commits ==
    << [SHA |-> Sha(1, 1), Message |-> <<"fix a", "details">>],
       [SHA |-> Sha(2, 2), Message |-> <<"add b">>],
       [SHA |-> Sha(1, 3), Message |-> <<"tweak a">>] >>

(***************************************************************************)
(* The hunks submitted to the oracle.  A hunk is identified by its index   *)
(* in req.Hunks.                                                           *)
(***************************************************************************)
Hunks == [i \in 1..NumHunks |-> i - 1]

(***************************************************************************)
(* Oracle documents.  Commit ids the oracle may give: a full id, an        *)
(* abbreviated id, an id that extends another commit's abbreviation, an    *)
(* unknown id, an id shorter than the abbreviation length, the empty id.   *)
(***************************************************************************)
OracleVerdicts ==
    { [CommitSHA |-> Sha(1, 1), Confidence |-> 9, Reasoning |-> "r1",
       Alternatives |-> <<>>],
      [CommitSHA |-> SubSeq(Sha(2, 2), 1, ShaPrefixLen), Confidence |-> 5,
       Reasoning |-> "r2",
       Alternatives |-> << [CommitSHA |-> Sha(1, 1), Confidence |-> 3,
                            Reasoning |-> "alt1"] >>],
      [CommitSHA |-> [i \in 1..ShaPrefixLen |-> 9], Confidence |-> 7,
       Reasoning |-> "r3", Alternatives |-> <<>>],
      [CommitSHA |-> SubSeq(Sha(1, 3), 1, ShaPrefixLen + 1), Confidence |-> 15,
       Reasoning |-> "r4",
       Alternatives |-> << [CommitSHA |-> Sha(2, 2), Confidence |-> 12,
                            Reasoning |-> "alt2"] >>],
      [CommitSHA |-> Sha(2, 2), Confidence |-> -5, Reasoning |-> "r5",
       Alternatives |-> <<>>],
      [CommitSHA |-> <<1, 1, 1>>, Confidence |-> 9, Reasoning |-> "r6",
       Alternatives |-> <<>>] }

OracleEntries ==
    { [HunkIndex |-> h, CommitSHA |-> v.CommitSHA, Confidence |-> v.Confidence,
       Reasoning |-> v.Reasoning, Alternatives |-> v.Alternatives] :
      h \in -1..NumHunks, v \in OracleVerdicts }

OracleUnmatched ==
    { <<>>, <<0>>, <<1>>, <<0, 0>>, <<0, 1>>, <<NumHunks>>, <<-1, 1>> }

Strategies == {"interactive", "best-match"}

Thresholds == {DefaultThreshold, 9}

(***************************************************************************)
(* parseAbsorbResponse, after the JSON document has been decoded.          *)
(***************************************************************************)
FirstLine(message) == message[1]

\* The two "for _, commit := range req.Commits" loops: the first commit whose
\* id starts with the first ShaPrefixLen characters of the oracle's id.
\* Slicing an id shorter than that panics.
RECURSIVE ResolveCommit(_, _, _)
ResolveCommit(commits, id, i) ==
    IF i > Len(commits)
    THEN [panic |-> FALSE, CommitSHA |-> id, CommitMessage |-> ""]
    ELSE IF Len(id) < ShaPrefixLen
    THEN [panic |-> TRUE, CommitSHA |-> id, CommitMessage |-> ""]
    ELSE IF HasPrefix(commits[i].SHA, SubSeq(id, 1, ShaPrefixLen))
    THEN [panic |-> FALSE, CommitSHA |-> commits[i].SHA,
          CommitMessage |-> FirstLine(commits[i].Message)]
    ELSE ResolveCommit(commits, id, i + 1)

\* "Process alternatives."
RECURSIVE ProcessAlternatives(_, _, _, _)
ProcessAlternatives(commits, alts, k, acc) ==
    IF k > Len(alts) THEN [panic |-> FALSE, Alternatives |-> acc]
    ELSE LET r == ResolveCommit(commits, alts[k].CommitSHA, 1)
         IN  IF r.panic THEN [panic |-> TRUE, Alternatives |-> acc]
             ELSE ProcessAlternatives(commits, alts, k + 1,
                      Append(acc, [CommitSHA |-> r.CommitSHA,
                                   CommitMessage |-> r.CommitMessage,
                                   Confidence |-> alts[k].Confidence,
                                   Reasoning |-> alts[k].Reasoning]))

\* "Apply confidence threshold if using best-match strategy."
BelowThresholdMutant(r, confidence) ==
    r.Strategy = "best-match" /\ confidence <= r.ConfidenceThreshold

BelowThreshold(r, confidence) ==
    r.Strategy = "best-match" /\ confidence < r.ConfidenceThreshold

\* "Process assignments."  st carries resp, assignedHunks and the panic flag.
RECURSIVE ProcessAssignments(_, _, _, _)
ProcessAssignments(r, entries, k, st) ==
    IF k > Len(entries) \/ st.panic THEN st
    ELSE LET a == entries[k]
         IN  IF a.HunkIndex < 0 \/ a.HunkIndex >= Len(r.Hunks)
             THEN ProcessAssignments(r, entries, k + 1, st)
             ELSE
               LET hunk == r.Hunks[a.HunkIndex + 1]
                   c    == ResolveCommit(r.Commits, a.CommitSHA, 1)
                   alts == IF c.panic THEN [panic |-> TRUE, Alternatives |-> <<>>]
                           ELSE ProcessAlternatives(r.Commits, a.Alternatives, 1, <<>>)
                   ha   == [Hunk |-> hunk, CommitSHA |-> c.CommitSHA,
                            CommitMessage |-> c.CommitMessage,
                            Confidence |-> a.Confidence,
                            Reasoning |-> a.Reasoning,
                            Alternatives |-> alts.Alternatives]
                   st1  == [st EXCEPT !.assignedHunks = @ \cup {a.HunkIndex}]
               IN  IF alts.panic THEN [st1 EXCEPT !.panic = TRUE]
                   ELSE IF BelowThreshold(r, a.Confidence)
                   THEN ProcessAssignments(r, entries, k + 1,
                            [st1 EXCEPT !.UnmatchedHunks = Append(@, hunk)])
                   ELSE ProcessAssignments(r, entries, k + 1,
                            [st1 EXCEPT !.Assignments = Append(@, ha)])

\* "Process unmatched hunks."
RECURSIVE ProcessUnmatched(_, _, _, _)
ProcessUnmatched(r, idxs, k, st) ==
    IF k > Len(idxs) THEN st
    ELSE LET idx == idxs[k]
         IN  IF idx >= 0 /\ idx < Len(r.Hunks) /\ idx \notin st.assignedHunks
             THEN ProcessUnmatched(r, idxs, k + 1,
                      [st EXCEPT !.UnmatchedHunks = Append(@, r.Hunks[idx + 1])])
             ELSE ProcessUnmatched(r, idxs, k + 1, st)

\* "Check for any hunks that weren't mentioned."
RECURSIVE ProcessUnmentioned(_, _, _, _)
ProcessUnmentioned(r, idxs, i, st) ==
    IF i >= Len(r.Hunks) THEN st
    ELSE IF i \notin st.assignedHunks /\ i \notin Range(idxs)
    THEN ProcessUnmentioned(r, idxs, i + 1,
             [st EXCEPT !.UnmatchedHunks = Append(@, r.Hunks[i + 1])])
    ELSE ProcessUnmentioned(r, idxs, i + 1, st)

parseAbsorbResponse(r, doc) ==
    LET st0 == [Assignments |-> <<>>, UnmatchedHunks |-> <<>>,
                assignedHunks |-> {}, panic |-> FALSE]
        st1 == ProcessAssignments(r, doc.Assignments, 1, st0)
        st2 == ProcessUnmatched(r, doc.UnmatchedHunks, 1, st1)
        st3 == ProcessUnmentioned(r, doc.UnmatchedHunks, 0, st2)
    IN  IF st1.panic
        THEN [status |-> "panic", Assignments |-> <<>>, UnmatchedHunks |-> <<>>]
        ELSE [status |-> "ok", Assignments |-> st3.Assignments,
              UnmatchedHunks |-> st3.UnmatchedHunks]

(***************************************************************************)
(* Specification of the oracle post-processing: any request and any        *)
(* decoded oracle document, then one call of parseAbsorbResponse.          *)
(***************************************************************************)
IdleParse == req = <<>> /\ jsonResp = <<>> /\ parseOut = <<>>

IdleReview ==
    /\ heap = <<>> /\ callerResp = <<>> /\ m = <<>>
    /\ reviewPc = "idle" /\ absorbResp = <<>> /\ hist = <<>>

IdleRepo ==
    /\ repo = <<>> /\ plan = <<>> /\ cfg = <<>> /\ run = <<>>
    /\ attempts = <<>> /\ injected = FALSE /\ clock = 0

IdleCheck == chk = <<>>

IdleSplit == diff = <<>> /\ split = <<>>

IdleFilter == filt = <<>>

IdleRecord == undoFile = <<>>

NoOutput == [status |-> "none", Assignments |-> <<>>, UnmatchedHunks |-> <<>>]

InitParse ==
    /\ mode = "parse"
    /\ req \in [Hunks : {Hunks}, Commits : {Commits}, Strategy : Strategies,
                ConfidenceThreshold : Thresholds]
    /\ jsonResp \in [Assignments : SeqsUpTo(OracleEntries, MaxAssign),
                     UnmatchedHunks : OracleUnmatched]
    /\ parseOut = NoOutput
    /\ IdleReview
    /\ IdleRepo
    /\ IdleCheck /\ IdleSplit /\ IdleFilter /\ IdleRecord

ParseResponse ==
    /\ mode = "parse"
    /\ parseOut.status = "none"
    /\ parseOut' = parseAbsorbResponse(req, jsonResp)
    /\ UNCHANGED <<mode, req, jsonResp, reviewVars, repoVars, auxVars>>

NextParse == ParseResponse

SpecParse == InitParse /\ [][NextParse]_vars


(***************************************************************************)
(* Go slices.  A slice is a window [arr, len] on a backing array of the    *)
(* heap; the array's length is the slice's capacity.  Slots beyond every   *)
(* slice's length hold the zero value.                                     *)
(***************************************************************************)
Zero == "zero"

SliceVal(h, s) == SubSeq(h[s.arr], 1, s.len)

SliceCap(h, s) == Len(h[s.arr])

\* append(s, x): in place when the capacity allows, else into a new array.
GoAppend(h, s, x) ==
    IF s.len < SliceCap(h, s)
    THEN [heap  |-> [h EXCEPT ![s.arr][s.len + 1] = x],
          slice |-> [s EXCEPT !.len = @ + 1]]
    ELSE LET newcap == IF SliceCap(h, s) = 0 THEN 1 ELSE 2 * SliceCap(h, s)
             arr == [j \in 1..newcap |->
                        IF j <= s.len THEN h[s.arr][j]
                        ELSE IF j = s.len + 1 THEN x ELSE Zero]
         IN  [heap  |-> Append(h, arr),
              slice |-> [arr |-> Len(h) + 1, len |-> s.len + 1]]

\* append(s[:i], s[i+1:]...): the elements after position i move one slot
\* down inside the same backing array; the last slot keeps its old value.
GoDelete(h, s, i) ==
    [heap  |-> [h EXCEPT ![s.arr] =
                   [j \in 1..Len(@) |->
                       IF j >= i + 1 /\ j <= s.len - 1 THEN @[j + 1] ELSE @[j]]],
     slice |-> [s EXCEPT !.len = @ - 1]]

\* The value of an AbsorbResponse held as two slices.
RespVal(h, r) ==
    [Assignments    |-> SliceVal(h, r.Assignments),
     UnmatchedHunks |-> SliceVal(h, r.UnmatchedHunks)]

MapPut(f, k, v) == [i \in DOMAIN f \cup {k} |-> IF i = k THEN v ELSE f[i]]

(***************************************************************************)
(* The interactive review: ui.AbsorbReviewModel and step 8 of runAbsorb.   *)
(***************************************************************************)
MaxReview == 2
MaxSlack == 1

ReviewVerdicts ==
    { [CommitSHA |-> Sha(1, 1), CommitMessage |-> "fix a", Confidence |-> 9,
       Reasoning |-> "r1", Alternatives |-> <<>>],
      [CommitSHA |-> Sha(2, 2), CommitMessage |-> "add b", Confidence |-> 6,
       Reasoning |-> "r2",
       Alternatives |->
         << [CommitSHA |-> Sha(1, 1), CommitMessage |-> "fix a",
             Confidence |-> 3, Reasoning |-> "alt1"],
            [CommitSHA |-> Sha(1, 3), CommitMessage |-> "tweak a",
             Confidence |-> 2, Reasoning |-> "alt2"] >>] }

ReviewAssignment(hunk, v) ==
    [Hunk |-> hunk, CommitSHA |-> v.CommitSHA, CommitMessage |-> v.CommitMessage,
     Confidence |-> v.Confidence, Reasoning |-> v.Reasoning,
     Alternatives |-> v.Alternatives]

Padded(s, slack) == s \o [j \in 1..slack |-> Zero]

\* NewAbsorbReviewModel: the model's slices are the caller's slices.
NewAbsorbReviewModel(resp) ==
    [assignments   |-> resp.Assignments,
     unmatched     |-> resp.UnmatchedHunks,
     currentIndex  |-> 0,
     selectedAlt   |-> 0,
     accepted      |-> FALSE,
     cancelled     |-> FALSE,
     mode          |-> "review",
     modifications |-> <<>>]

InitReview ==
    /\ mode = "review"
    /\ IdleParse
    /\ IdleRepo
    /\ IdleCheck /\ IdleSplit /\ IdleFilter /\ IdleRecord
    /\ \E n \in 1..MaxReview, u \in 0..1, slack \in 0..MaxSlack :
       \E f \in [1..n -> ReviewVerdicts] :
          LET as == [k \in 1..n |-> ReviewAssignment(k - 1, f[k])]
              us == [k \in 1..u |-> n + k - 1]
          IN  /\ heap = << Padded(as, slack), Padded(us, slack) >>
              /\ callerResp = [Assignments    |-> [arr |-> 1, len |-> n],
                               UnmatchedHunks |-> [arr |-> 2, len |-> u]]
              /\ hist = [orig |-> [Assignments |-> as, UnmatchedHunks |-> us],
                         unassigns |-> <<>>, selected |-> FALSE]
    /\ m = NewAbsorbReviewModel(callerResp)
    /\ reviewPc = "review"
    /\ absorbResp = callerResp

Reviewing == mode = "review" /\ reviewPc = "review"

CurrentAssignment == heap[m.assignments.arr][m.currentIndex + 1]

\* case key.Matches(msg, absorbKeys.Accept)
KeyAccept ==
    /\ Reviewing /\ m.mode = "review"
    /\ m' = [m EXCEPT !.accepted = TRUE]
    /\ reviewPc' = "quit"
    /\ UNCHANGED <<mode, parseVars, repoVars, auxVars, heap, callerResp, absorbResp, hist>>

\* KeyCancel handled before the switch on m.mode, in every mode.
KeyCancelMutant ==
    /\ Reviewing
    /\ m' = [m EXCEPT !.cancelled = TRUE]
    /\ reviewPc' = "quit"
    /\ UNCHANGED <<mode, parseVars, repoVars, auxVars, heap, callerResp, absorbResp, hist>>

\* case key.Matches(msg, absorbKeys.Cancel), and "ctrl+c"
KeyCancel ==
    /\ Reviewing /\ m.mode = "review"
    /\ m' = [m EXCEPT !.cancelled = TRUE]
    /\ reviewPc' = "quit"
    /\ UNCHANGED <<mode, parseVars, repoVars, auxVars, heap, callerResp, absorbResp, hist>>

\* case key.Matches(msg, absorbKeys.NextHunk)
KeyNextHunk ==
    /\ Reviewing /\ m.mode = "review"
    /\ m' = IF m.currentIndex < m.assignments.len - 1
            THEN [m EXCEPT !.currentIndex = @ + 1] ELSE m
    /\ UNCHANGED <<mode, parseVars, repoVars, auxVars, heap, callerResp, reviewPc, absorbResp, hist>>

\* case key.Matches(msg, absorbKeys.PrevHunk)
KeyPrevHunk ==
    /\ Reviewing /\ m.mode = "review"
    /\ m' = IF m.currentIndex > 0
            THEN [m EXCEPT !.currentIndex = @ - 1] ELSE m
    /\ UNCHANGED <<mode, parseVars, repoVars, auxVars, heap, callerResp, reviewPc, absorbResp, hist>>

\* case key.Matches(msg, absorbKeys.Alternatives)
KeyAlternatives ==
    /\ Reviewing /\ m.mode = "review"
    /\ m' = IF /\ m.currentIndex < m.assignments.len
               /\ Len(CurrentAssignment.Alternatives) > 0
            THEN [m EXCEPT !.mode = "alternatives", !.selectedAlt = 0] ELSE m
    /\ UNCHANGED <<mode, parseVars, repoVars, auxVars, heap, callerResp, reviewPc, absorbResp, hist>>

\* KeyUnassign without the cursor adjustment of lines 187-189.
KeyUnassignMutant ==
    /\ Reviewing /\ m.mode = "review"
    /\ IF m.currentIndex < m.assignments.len
       THEN LET assignment == CurrentAssignment
                a1  == GoAppend(heap, m.unmatched, assignment.Hunk)
                a2  == GoDelete(a1.heap, m.assignments, m.currentIndex)
            IN  /\ heap' = a2.heap
                /\ m' = [m EXCEPT !.unmatched = a1.slice,
                                  !.assignments = a2.slice]
                /\ hist' = [hist EXCEPT !.unassigns =
                              Append(@, [index |-> m.currentIndex,
                                         entry |-> assignment])]
       ELSE UNCHANGED <<heap, m, hist>>
    /\ UNCHANGED <<mode, parseVars, repoVars, auxVars, callerResp, reviewPc, absorbResp>>

\* case key.Matches(msg, absorbKeys.Unassign)
KeyUnassign ==
    /\ Reviewing /\ m.mode = "review"
    /\ IF m.currentIndex < m.assignments.len
       THEN LET assignment == CurrentAssignment
                a1  == GoAppend(heap, m.unmatched, assignment.Hunk)
                a2  == GoDelete(a1.heap, m.assignments, m.currentIndex)
                idx == IF m.currentIndex >= a2.slice.len /\ m.currentIndex > 0
                       THEN m.currentIndex - 1 ELSE m.currentIndex
            IN  /\ heap' = a2.heap
                /\ m' = [m EXCEPT !.unmatched = a1.slice,
                                  !.assignments = a2.slice,
                                  !.currentIndex = idx]
                /\ hist' = [hist EXCEPT !.unassigns =
                              Append(@, [index |-> m.currentIndex,
                                         entry |-> assignment])]
       ELSE UNCHANGED <<heap, m, hist>>
    /\ UNCHANGED <<mode, parseVars, repoVars, auxVars, callerResp, reviewPc, absorbResp>>

\* mode "alternatives": case "up", "k"
AltUp ==
    /\ Reviewing /\ m.mode = "alternatives"
    /\ m' = IF m.selectedAlt > 0 THEN [m EXCEPT !.selectedAlt = @ - 1] ELSE m
    /\ UNCHANGED <<mode, parseVars, repoVars, auxVars, heap, callerResp, reviewPc, absorbResp, hist>>

\* mode "alternatives": case "down", "j"
AltDown ==
    /\ Reviewing /\ m.mode = "alternatives"
    /\ m' = IF m.selectedAlt < Len(CurrentAssignment.Alternatives)
            THEN [m EXCEPT !.selectedAlt = @ + 1] ELSE m
    /\ UNCHANGED <<mode, parseVars, repoVars, auxVars, heap, callerResp, reviewPc, absorbResp, hist>>

\* AltEnter without the assignment of line 229 (Confidence).
AltEnterMutant ==
    /\ Reviewing /\ m.mode = "alternatives"
    /\ IF m.selectedAlt > 0 /\ m.selectedAlt <= Len(CurrentAssignment.Alternatives)
       THEN LET alt == CurrentAssignment.Alternatives[m.selectedAlt]
            IN  /\ heap' = [heap EXCEPT ![m.assignments.arr][m.currentIndex + 1] =
                              [@ EXCEPT !.CommitSHA = alt.CommitSHA,
                                        !.CommitMessage = alt.CommitMessage,
                                        !.Reasoning = alt.Reasoning]]
                /\ m' = [m EXCEPT !.mode = "review",
                                  !.modifications =
                                      MapPut(@, m.currentIndex, alt.CommitSHA)]
                /\ hist' = [hist EXCEPT !.selected = TRUE]
       ELSE /\ m' = [m EXCEPT !.mode = "review"]
            /\ UNCHANGED <<heap, hist>>
    /\ UNCHANGED <<mode, parseVars, repoVars, auxVars, callerResp, reviewPc, absorbResp>>

\* mode "alternatives": case "enter"
AltEnter ==
    /\ Reviewing /\ m.mode = "alternatives"
    /\ IF m.selectedAlt > 0 /\ m.selectedAlt <= Len(CurrentAssignment.Alternatives)
       THEN LET alt == CurrentAssignment.Alternatives[m.selectedAlt]
            IN  /\ heap' = [heap EXCEPT ![m.assignments.arr][m.currentIndex + 1] =
                              [@ EXCEPT !.CommitSHA = alt.CommitSHA,
                                        !.CommitMessage = alt.CommitMessage,
                                        !.Confidence = alt.Confidence,
                                        !.Reasoning = alt.Reasoning]]
                /\ m' = [m EXCEPT !.mode = "review",
                                  !.modifications =
                                      MapPut(@, m.currentIndex, alt.CommitSHA)]
                /\ hist' = [hist EXCEPT !.selected = TRUE]
       ELSE /\ m' = [m EXCEPT !.mode = "review"]
            /\ UNCHANGED <<heap, hist>>
    /\ UNCHANGED <<mode, parseVars, repoVars, auxVars, callerResp, reviewPc, absorbResp>>

\* mode "alternatives": case "q", "esc"
AltEsc ==
    /\ Reviewing /\ m.mode = "alternatives"
    /\ m' = [m EXCEPT !.mode = "review"]
    /\ UNCHANGED <<mode, parseVars, repoVars, auxVars, heap, callerResp, reviewPc, absorbResp, hist>>

\* AbsorbReviewModel.GetResult
GetResult(model) ==
    IF model.cancelled THEN [accepted |-> FALSE, modified |-> FALSE, resp |-> <<>>]
    ELSE IF ~model.accepted
    THEN [accepted |-> FALSE, modified |-> FALSE, resp |-> <<>>]
    ELSE IF DOMAIN model.modifications # {}
    THEN [accepted |-> TRUE, modified |-> TRUE,
          resp |-> [Assignments    |-> model.assignments,
                    UnmatchedHunks |-> model.unmatched]]
    ELSE [accepted |-> TRUE, modified |-> FALSE, resp |-> <<>>]

\* runAbsorb step 8, after ShowAbsorbReview returned: cancel returns, accept
\* goes on with the modified response when there is one.
ReviewReturn ==
    /\ mode = "review" /\ reviewPc = "quit"
    /\ LET r == GetResult(m)
       IN  IF ~r.accepted
           THEN reviewPc' = "cancelled" /\ UNCHANGED absorbResp
           ELSE /\ reviewPc' = "apply"
                /\ absorbResp' = IF r.modified THEN r.resp ELSE absorbResp
    /\ UNCHANGED <<mode, parseVars, repoVars, auxVars, heap, callerResp, m, hist>>

NextReview ==
    \/ KeyAccept \/ KeyCancel \/ KeyNextHunk \/ KeyPrevHunk
    \/ KeyAlternatives \/ KeyUnassign
    \/ AltUp \/ AltDown \/ AltEnter \/ AltEsc
    \/ ReviewReturn

SpecReview == InitReview /\ [][NextReview]_vars

(***************************************************************************)
(* The repository.  HEAD is the sequence of commits made on top of the     *)
(* history the run started from; a ref holds the HEAD it was created at.   *)
(* The index is the set of staged hunks (what "git diff --cached" shows).  *)
(***************************************************************************)
BaseFiles == {"a.txt"}

StagedUniverse ==
    { [id |-> 0, FilePath |-> "a.txt", IsNew |-> FALSE],
      [id |-> 1, FilePath |-> "b.txt", IsNew |-> TRUE],
      [id |-> 2, FilePath |-> "a.txt", IsNew |-> FALSE] }

\* Assignments carry the full id of a candidate commit.
TargetShas == {Commits[k].SHA : k \in 1..Len(Commits)}

\* A hunk the oracle left unmatched has no target.
NoTarget == <<>>

HeadHunks(r) == UNION {r.head[k].hunks : k \in 1..Len(r.head)}

\* The path exists in HEAD's tree.
FileInHead(r, f) ==
    f \in BaseFiles \/ \E h \in HeadHunks(r) : h.FilePath = f

\* The path has an entry in the index.
FileInIndex(r, f) ==
    FileInHead(r, f) \/ \E h \in r.index : h.FilePath = f

\* git resolves the revision (a full id or an abbreviation of one).
KnownRevision(sha) == \E k \in 1..Len(Commits) : HasPrefix(Commits[k].SHA, sha)

\* git checkout HEAD -- <path>: index and working copy of the path become
\* HEAD's, so every staged hunk of the path is dropped; a path HEAD does not
\* have is an error.
GitCheckoutHeadPath(r, f, fail) ==
    IF fail \/ ~FileInHead(r, f)
    THEN [repo |-> r, err |-> TRUE]
    ELSE [repo |-> [r EXCEPT !.index = {h \in @ : h.FilePath # f}], err |-> FALSE]

\* git apply --index <patch>: all hunks or none.  A hunk that is already in
\* the index does not apply again, and a patch creating a file fails when
\* the index already has the path.
GitApplyIndex(r, hs, fail) ==
    IF \/ fail
       \/ \E h \in hs : h \in r.index \cup HeadHunks(r)
       \/ \E h \in hs : h.IsNew /\ FileInIndex(r, h.FilePath)
    THEN [repo |-> r, err |-> TRUE]
    ELSE [repo |-> [r EXCEPT !.index = @ \cup hs], err |-> FALSE]

\* Repository.CreateFixupCommit: git commit --fixup <target> commits the
\* whole index.
CreateFixupCommit(r, targetSHA, fail) ==
    IF fail \/ r.index = {} \/ ~KnownRevision(targetSHA)
    THEN [repo |-> r, err |-> TRUE]
    ELSE [repo |-> [r EXCEPT !.head = Append(@, [kind |-> "fixup",
                                                 target |-> targetSHA,
                                                 hunks |-> r.index]),
                             !.index = {}],
          err |-> FALSE]

\* "Reset the working directory to remove the hunks we're about to apply."
RECURSIVE ResetFiles(_, _, _, _)
ResetFiles(r, hunks, k, fail) ==
    IF k > Len(hunks) THEN [repo |-> r, err |-> FALSE]
    ELSE LET c == GitCheckoutHeadPath(r, hunks[k].FilePath, fail)
         IN  IF c.err /\ ~hunks[k].IsNew THEN [repo |-> c.repo, err |-> TRUE]
             ELSE ResetFiles(c.repo, hunks, k + 1, fail)

Injections == {"none", "patch", "checkout", "apply", "commit"}

\* ApplyHunksAsFixup going on to the fixup commit after a failed git apply.
ApplyHunksAsFixupMutant(r, hunks, targetSHA, inj) ==
    IF Len(hunks) = 0 \/ inj = "patch" THEN [repo |-> r, err |-> TRUE]
    ELSE LET reset == ResetFiles(r, hunks, 1, inj = "checkout")
             apply == GitApplyIndex(reset.repo, Range(hunks), inj = "apply")
         IN  IF reset.err THEN reset
             ELSE CreateFixupCommit(apply.repo, targetSHA, inj = "commit")

\* Repository.ApplyHunksAsFixup
ApplyHunksAsFixup(r, hunks, targetSHA, inj) ==
    IF Len(hunks) = 0 \/ inj = "patch" THEN [repo |-> r, err |-> TRUE]
    ELSE LET reset == ResetFiles(r, hunks, 1, inj = "checkout")
             apply == GitApplyIndex(reset.repo, Range(hunks), inj = "apply")
         IN  IF reset.err THEN reset
             ELSE IF apply.err THEN apply
             ELSE CreateFixupCommit(apply.repo, targetSHA, inj = "commit")

(***************************************************************************)
(* runAbsorb from step 10 on: fixup application, backup ref, commit of the *)
(* unmatched hunks, undo record, autosquash rebase.                        *)
(***************************************************************************)
RECURSIVE OrderById(_)
OrderById(S) ==
    IF S = {} THEN <<>>
    ELSE LET h == CHOOSE x \in S : \A y \in S : x.id <= y.id
         IN  <<h>> \o OrderById(S \ {h})

PlanFor(staged, target) ==
    LET ordered == OrderById(staged)
        Assigned(h) == target[h] # NoTarget
        Unassigned(h) == target[h] = NoTarget
        as == SelectSeq(ordered, Assigned)
        us == SelectSeq(ordered, Unassigned)
    IN  [Assignments    |-> [k \in 1..Len(as) |->
                                [Hunk |-> as[k], CommitSHA |-> target[as[k]]]],
         UnmatchedHunks |-> us]

\* commitHunks: "Group hunks by target commit."
PlanTargets(p) == {p.Assignments[k].CommitSHA : k \in 1..Len(p.Assignments)}

CommitHunks(p, sha) ==
    LET ForSha(a) == a.CommitSHA = sha
        as == SelectSeq(p.Assignments, ForSha)
    IN  [k \in 1..Len(as) |-> as[k].Hunk]

\* fmt.Sprintf("absorb-%d", time.Now().Unix()); a ref path is the sequence of
\* its "/"-separated components, a component the sequence of its pieces.
Digits == <<"0", "1", "2", "3", "4", "5", "6", "7", "8", "9">>

BackupName(now) == <<"absorb-", Digits[now + 1]>>

BackupRefPath(name) == << <<"refs">>, <<"cmt-backup">>, name >>

EmptyRepo ==
    [index |-> {}, head |-> <<>>, refs |-> {}, stateFile |-> <<>>,
     branch |-> "main", stash |-> <<>>]

InitAbsorb ==
    /\ mode = "absorb"
    /\ IdleParse /\ IdleReview
    /\ IdleCheck /\ IdleSplit /\ IdleFilter /\ IdleRecord
    /\ \E staged \in (SUBSET StagedUniverse) \ {{}} :
       \E target \in [staged -> TargetShas \cup {NoTarget}] :
          /\ repo = [EmptyRepo EXCEPT !.index = staged]
          /\ plan = PlanFor(staged, target)
    /\ cfg \in [autoCommit : BOOLEAN, noNewCommit : BOOLEAN, rebase : BOOLEAN]
    /\ run = [pc |-> IF Len(plan.Assignments) > 0 THEN "apply" ELSE "backup",
              pending |-> PlanTargets(plan), backupRef |-> <<>>]
    /\ attempts = <<>>
    /\ injected = FALSE
    /\ clock = 1

\* Step 10, one iteration of "for sha, hunks := range commitHunks" (a Go map:
\* any order); an error returns from runAbsorb at once.
ApplyTarget(sha, inj) ==
    LET r == ApplyHunksAsFixup(repo, CommitHunks(plan, sha), sha, inj)
        rest == run.pending \ {sha}
    IN  /\ repo' = r.repo
        /\ attempts' = Append(attempts, [target |-> sha, err |-> r.err])
        /\ injected' = (injected \/ inj # "none")
        /\ run' = IF r.err THEN [run EXCEPT !.pc = "failed"]
                  ELSE [run EXCEPT !.pending = rest,
                                   !.pc = IF rest = {} THEN "backup" ELSE "apply"]

ApplyAssignments ==
    /\ mode = "absorb" /\ run.pc = "apply"
    /\ \E sha \in run.pending, inj \in Injections : ApplyTarget(sha, inj)
    /\ UNCHANGED <<mode, parseVars, reviewVars, auxVars, plan, cfg, clock>>

\* Step 11: Repository.CreateBackupRef, git update-ref <ref> HEAD.
CreateBackup ==
    /\ mode = "absorb" /\ run.pc = "backup"
    /\ \E fail \in BOOLEAN :
          LET ref == BackupRefPath(BackupName(clock))
          IN  IF fail
              THEN /\ run' = [run EXCEPT !.pc = "failed"]
                   /\ injected' = TRUE
                   /\ UNCHANGED repo
              ELSE /\ repo' = [repo EXCEPT !.refs =
                                 {x \in @ : x.name # ref}
                                   \cup {[name |-> ref, commit |-> repo.head]}]
                   /\ run' = [run EXCEPT !.pc = "unmatched", !.backupRef = ref]
                   /\ UNCHANGED injected
    /\ UNCHANGED <<mode, parseVars, reviewVars, auxVars, plan, cfg, attempts, clock>>

\* Step 12: with auto-commit, whatever is still staged is committed under a
\* generated message.
HandleUnmatched ==
    /\ mode = "absorb" /\ run.pc = "unmatched"
    /\ IF /\ Len(plan.UnmatchedHunks) > 0 /\ ~cfg.noNewCommit
          /\ cfg.autoCommit /\ repo.index # {}
       THEN \E fail \in {"none", "staged", "message", "commit"} :
              /\ injected' = (injected \/ fail # "none")
              /\ CASE fail = "none" ->
                       /\ repo' = [repo EXCEPT
                                     !.head = Append(@, [kind |-> "commit",
                                                         target |-> <<>>,
                                                         hunks |-> repo.index]),
                                     !.index = {}]
                       /\ run' = [run EXCEPT !.pc = "save"]
                   [] fail = "staged" ->
                       \* HasStagedChanges' error is dropped: nothing to commit
                       /\ run' = [run EXCEPT !.pc = "save"]
                       /\ UNCHANGED repo
                   [] OTHER ->
                       /\ run' = [run EXCEPT !.pc = "failed"]
                       /\ UNCHANGED repo
       ELSE /\ run' = [run EXCEPT !.pc = "save"]
            /\ UNCHANGED <<repo, injected>>
    /\ UNCHANGED <<mode, parseVars, reviewVars, auxVars, plan, cfg, attempts, clock>>

\* Step 13: git.SaveAbsorbState; a failure is only a warning.
AbsorbStateOf(r, backupRef, nAssignments, now) ==
    [OriginalHEAD  |-> r.head,
     BackupRef     |-> backupRef,
     CurrentBranch |-> r.branch,
     Timestamp     |-> now,
     Operations    |-> << <<"Created fixup commits", nAssignments>>,
                          <<"Backup ref", backupRef>> >>,
     StashSHA      |-> <<>>]

\* os.Create on the one path .git/cmt/absorb-undo truncates what was there.
WriteStateFileMutant(r, state) == [r EXCEPT !.stateFile = Append(@, state)]

WriteStateFile(r, state) == [r EXCEPT !.stateFile = <<state>>]

\* Some ApplyHunksAsFixup call of this execution returned without error.
CreatedFixup == \E k \in 1..Len(attempts) : ~attempts[k].err

SaveState ==
    /\ mode = "absorb" /\ run.pc = "save"
    /\ \E fail \in BOOLEAN :
          /\ repo' = IF fail THEN repo
                     ELSE WriteStateFile(repo,
                              AbsorbStateOf(repo, run.backupRef,
                                            Len(plan.Assignments), clock))
          /\ injected' = (injected \/ fail)
    /\ run' = [run EXCEPT !.pc = "rebase"]
    /\ UNCHANGED <<mode, parseVars, reviewVars, auxVars, plan, cfg, attempts, clock>>

\* Step 14: the base is the parent of the first candidate commit that got an
\* assignment; a failed rebase is only a warning.
BaseCommitFound ==
    \E k \in 1..Len(Commits) : Commits[k].SHA \in PlanTargets(plan)

Rebase ==
    /\ mode = "absorb" /\ run.pc = "rebase"
    /\ IF cfg.rebase /\ BaseCommitFound
       THEN \E fail \in BOOLEAN :
              /\ repo' = IF fail \/ repo.head = <<>> THEN repo
                         ELSE [repo EXCEPT !.head =
                                 << [kind |-> "squashed", target |-> <<>>,
                                     hunks |-> HeadHunks(repo)] >>]
              /\ injected' = (injected \/ fail)
       ELSE UNCHANGED <<repo, injected>>
    /\ run' = [run EXCEPT !.pc = "done"]
    /\ UNCHANGED <<mode, parseVars, reviewVars, auxVars, plan, cfg, attempts, clock>>

NextAbsorb ==
    \/ ApplyAssignments \/ CreateBackup \/ HandleUnmatched \/ SaveState \/ Rebase

SpecAbsorb == InitAbsorb /\ [][NextAbsorb]_vars

(***************************************************************************)
(* Repository.CheckRebaseConflicts: replay the candidate commits on a      *)
(* disposable branch.  Every git command but the two of the deferred       *)
(* cleanup is started with exec.CommandContext, which does not start the   *)
(* command once the context is cancelled.                                  *)
(***************************************************************************)
MaxCommits == 2

TempBranch == "cmt-absorb-test"

\* How "git rebase <commit>" ends when it is started: it replays cleanly,
\* it stops on a conflict and leaves the rebase in progress, or it refuses
\* to start (uncommitted changes in the index).
RebaseOutcomes == {"clean", "conflict", "refused"}

InitCheck ==
    /\ mode = "check"
    /\ IdleParse /\ IdleReview /\ IdleRepo /\ IdleSplit /\ IdleFilter /\ IdleRecord
    /\ \E b \in {"main", "feature"}, cs \in SeqsUpTo(RebaseOutcomes, MaxCommits) :
          chk = [pc |-> "branch", ctx |-> "live",
                 branch |-> b, branches |-> {"main", "feature"},
                 rebasing |-> FALSE, commits |-> cs, next |-> 1,
                 currentBranch |-> "", tempCreated |-> FALSE,
                 hasConflicts |-> FALSE, err |-> FALSE]

\* The caller's context is cancelled (Ctrl-C, deadline) while the call runs.
CancelContext ==
    /\ mode = "check"
    /\ chk.ctx = "live" /\ chk.pc # "returned"
    /\ chk' = [chk EXCEPT !.ctx = "cancelled"]
    /\ UNCHANGED <<mode, parseVars, reviewVars, repoVars, diff, split, filt, undoFile>>

\* currentBranch, err := r.GetCurrentBranch(ctx)
SaveCurrentBranch ==
    /\ mode = "check" /\ chk.pc = "branch"
    /\ chk' = IF chk.ctx = "cancelled"
              THEN [chk EXCEPT !.pc = "returned", !.err = TRUE]
              ELSE [chk EXCEPT !.pc = "create", !.currentBranch = chk.branch]
    /\ UNCHANGED <<mode, parseVars, reviewVars, repoVars, diff, split, filt, undoFile>>

\* git checkout -b <tempBranch>
CreateTempBranch ==
    /\ mode = "check" /\ chk.pc = "create"
    /\ chk' = IF chk.ctx = "cancelled"
              THEN [chk EXCEPT !.pc = "returned", !.err = TRUE]
              ELSE [chk EXCEPT !.pc = "rebase", !.tempCreated = TRUE,
                               !.branch = TempBranch,
                               !.branches = @ \cup {TempBranch}]
    /\ UNCHANGED <<mode, parseVars, reviewVars, repoVars, diff, split, filt, undoFile>>

\* for _, commit := range commits { git rebase <commit> ... }
RebaseCommit ==
    /\ mode = "check" /\ chk.pc = "rebase"
    /\ chk' = IF chk.next > Len(chk.commits)
              THEN [chk EXCEPT !.pc = "cleanup"]
              ELSE IF chk.ctx = "live" /\ chk.commits[chk.next] = "clean"
              THEN [chk EXCEPT !.next = @ + 1]
              ELSE [chk EXCEPT !.pc = "abort", !.hasConflicts = TRUE,
                               !.rebasing = (chk.ctx = "live" /\
                                             chk.commits[chk.next] = "conflict")]
    /\ UNCHANGED <<mode, parseVars, reviewVars, repoVars, diff, split, filt, undoFile>>

\* git diff --name-only --diff-filter=U (reads only), then
\* exec.CommandContext(ctx, "git", "rebase", "--abort"); break
AbortRebase(c) ==
    IF c.ctx = "cancelled" THEN [c EXCEPT !.pc = "cleanup"]
    ELSE [c EXCEPT !.pc = "cleanup", !.rebasing = FALSE]

AbortStep ==
    /\ mode = "check" /\ chk.pc = "abort"
    /\ chk' = AbortRebase(chk)
    /\ UNCHANGED <<mode, parseVars, reviewVars, repoVars, diff, split, filt, undoFile>>

\* The deferred function: git checkout <currentBranch>; git branch -D <temp>,
\* both started with exec.Command and both results dropped.  While a rebase
\* stopped on a conflict is in progress git refuses both.
DeferredCleanup ==
    /\ mode = "check" /\ chk.pc = "cleanup"
    /\ chk' = IF chk.rebasing
              THEN [chk EXCEPT !.pc = "returned"]
              ELSE [chk EXCEPT !.pc = "returned",
                               !.branch = chk.currentBranch,
                               !.branches = @ \ {TempBranch}]
    /\ UNCHANGED <<mode, parseVars, reviewVars, repoVars, diff, split, filt, undoFile>>

NextCheck ==
    \/ CancelContext \/ SaveCurrentBranch \/ CreateTempBranch
    \/ RebaseCommit \/ AbortStep \/ DeferredCleanup

SpecCheck == InitCheck /\ [][NextCheck]_vars

(***************************************************************************)
(* cmt absorb --undo and cmt absorb --cleanup-backups, run on a repository *)
(* that earlier absorb runs have left behind: some backup refs and, unless *)
(* it was never written or already consumed, the undo record of the last   *)
(* run.                                                                    *)
(***************************************************************************)
MaxBackups == 2

Branches == {"main", "feature"}

HeadRefPath(b) == << <<"refs">>, <<"heads">>, <<b>> >>

\* The history a backup taken at time t points at.
HeadAt(t) ==
    [k \in 1..t |-> [kind |-> "fixup", target |-> Sha(1, 1),
                     hunks |-> {[id |-> k, FilePath |-> "a.txt", IsNew |-> FALSE]}]]

\* Every ref of the repository: the branches and the backups.
AllRefNames(r) ==
    {HeadRefPath(b) : b \in Branches} \cup {x.name : x \in r.refs}

\* git show-ref [--heads] <pattern>: a pattern matches a ref whose name ends
\* with it, on a "/" boundary.
TailMatch(name, pattern) ==
    /\ Len(pattern) <= Len(name)
    /\ SubSeq(name, Len(name) - Len(pattern) + 1, Len(name)) = pattern

GitShowRef(r, headsOnly, pattern) ==
    {n \in AllRefNames(r) :
        /\ headsOnly => (n[1] = <<"refs">> /\ n[2] = <<"heads">>)
        /\ TailMatch(n, pattern)}

\* "refs/cmt-backup/" split at "/": the last component is empty.
BackupPattern == << <<"refs">>, <<"cmt-backup">>, <<>> >>

\* Repository.ListBackupRefs
ListBackupRefs(r, fail) ==
    IF fail THEN [refs |-> {}, err |-> TRUE]
    ELSE [refs |-> GitShowRef(r, TRUE, BackupPattern), err |-> FALSE]

\* Repository.DeleteBackupRef: git update-ref -d <ref>
DeleteBackupRef(r, refPath, fail) ==
    IF fail THEN [repo |-> r, err |-> TRUE]
    ELSE [repo |-> [r EXCEPT !.refs = {x \in @ : x.name # refPath}],
          err |-> FALSE]

\* git checkout <branch>
GitCheckout(r, b, fail) ==
    IF fail \/ b \notin Branches THEN [repo |-> r, err |-> TRUE]
    ELSE [repo |-> [r EXCEPT !.branch = b], err |-> FALSE]

\* git reset --mixed <ref>: HEAD and the index become the ref's commit.
GitResetMixed(r, refPath, fail) ==
    IF fail \/ ~\E x \in r.refs : x.name = refPath
    THEN [repo |-> r, err |-> TRUE]
    ELSE LET x == CHOOSE y \in r.refs : y.name = refPath
         IN  [repo |-> [r EXCEPT !.head = x.commit, !.index = {}],
              err |-> FALSE]

\* Repository.StashPop: git stash pop takes the top of the stash list.
StashPop(r, fail) ==
    IF fail \/ r.stash = <<>> THEN [repo |-> r, err |-> TRUE]
    ELSE [repo |-> [r EXCEPT !.stash = Tail(@)], err |-> FALSE]

Step(name, err) == [step |-> name, ok |-> ~err]

\* UndoAbsorb past the reset: stash, backup ref, state file.
UndoRestMutant(r, state, inj, log) ==
    LET pop  == IF state.StashSHA # <<>> THEN StashPop(r, "stash" \in inj)
                ELSE [repo |-> r, err |-> FALSE]
        log1 == IF state.StashSHA # <<>>
                THEN Append(log, Step("stash", pop.err)) ELSE log
        del  == DeleteBackupRef(pop.repo, state.BackupRef, "delete" \in inj)
    IN  IF pop.err \/ del.err
        THEN [repo |-> pop.repo, err |-> TRUE, log |-> log1]
        ELSE [repo |-> [del.repo EXCEPT !.stateFile = <<>>],
              err  |-> FALSE,
              log  |-> Append(Append(log1, Step("delete", del.err)),
                              Step("remove", FALSE))]

UndoRest(r, state, inj, log) ==
    LET pop  == IF state.StashSHA # <<>> THEN StashPop(r, "stash" \in inj)
                ELSE [repo |-> r, err |-> FALSE]
        log1 == IF state.StashSHA # <<>>
                THEN Append(log, Step("stash", pop.err)) ELSE log
        del  == DeleteBackupRef(pop.repo, state.BackupRef, "delete" \in inj)
    IN  [repo |-> [del.repo EXCEPT !.stateFile = <<>>],
         err  |-> FALSE,
         log  |-> Append(Append(log1, Step("delete", del.err)),
                         Step("remove", FALSE))]

\* UndoAbsorb removing the state file before the reset is known to have
\* succeeded.
UndoAbsorbMutant(r, inj) ==
    IF r.stateFile = <<>> THEN [repo |-> r, err |-> TRUE, log |-> <<>>]
    ELSE LET state == r.stateFile[1]
             co == GitCheckout(r, state.CurrentBranch, "checkout" \in inj)
             rs == GitResetMixed(co.repo, state.BackupRef, "reset" \in inj)
         IN  IF state.BackupRef = <<>>
             THEN [repo |-> r, err |-> TRUE, log |-> <<>>]
             ELSE IF co.err
             THEN [repo |-> r, err |-> TRUE,
                   log |-> <<Step("checkout", TRUE)>>]
             ELSE IF rs.err
             THEN [repo |-> [co.repo EXCEPT !.stateFile = <<>>], err |-> TRUE,
                   log |-> <<Step("checkout", FALSE), Step("reset", TRUE)>>]
             ELSE UndoRest(rs.repo, state, inj,
                           <<Step("checkout", FALSE), Step("reset", FALSE)>>)

\* Repository.UndoAbsorb; inj is the set of git commands that fail for an
\* outside reason.
UndoAbsorb(r, inj) ==
    IF r.stateFile = <<>> THEN [repo |-> r, err |-> TRUE, log |-> <<>>]
    ELSE LET state == r.stateFile[1]
             co == GitCheckout(r, state.CurrentBranch, "checkout" \in inj)
             rs == GitResetMixed(co.repo, state.BackupRef, "reset" \in inj)
         IN  IF state.BackupRef = <<>>
             THEN [repo |-> r, err |-> TRUE, log |-> <<>>]
             ELSE IF co.err
             THEN [repo |-> r, err |-> TRUE,
                   log |-> <<Step("checkout", TRUE)>>]
             ELSE IF rs.err
             THEN [repo |-> co.repo, err |-> TRUE,
                   log |-> <<Step("checkout", FALSE), Step("reset", TRUE)>>]
             ELSE UndoRest(rs.repo, state, inj,
                           <<Step("checkout", FALSE), Step("reset", FALSE)>>)

UndoSteps == {"checkout", "reset", "stash", "delete"}

\* runCleanupBackups; delFail is the set of refs whose deletion fails.
runCleanupBackups(r, listFail, delFail) ==
    LET activeBackupRef == IF r.stateFile = <<>> THEN <<>>
                           ELSE r.stateFile[1].BackupRef
        listed  == ListBackupRefs(r, listFail)
        deleted == {n \in listed.refs : n # activeBackupRef /\ n \notin delFail}
    IN  IF listed.err THEN [repo |-> r, err |-> TRUE, deleted |-> {}]
        ELSE [repo |-> [r EXCEPT !.refs = {x \in @ : x.name \notin deleted}],
              err |-> FALSE, deleted |-> deleted]

\* The stash list at undo time, top first: empty, the stash the run made, or
\* that stash under one the user made since.
StashStacks == {<<>>, <<"stash0">>, <<"stash1", "stash0">>}

InitUndo ==
    /\ mode = "undo"
    /\ IdleParse /\ IdleReview /\ IdleCheck /\ IdleSplit /\ IdleFilter /\ IdleRecord
    /\ plan = <<>> /\ cfg = <<>> /\ attempts = <<>>
    /\ injected = FALSE
    /\ clock = MaxBackups + 1
    /\ run = [cmd |-> "none", err |-> FALSE, log |-> <<>>, deleted |-> {}]
    /\ \E times \in SUBSET (1..MaxBackups), b \in Branches,
          staged \in {{}, {[id |-> 0, FilePath |-> "a.txt", IsNew |-> FALSE]}},
          stack \in StashStacks :
        LET refs == {[name |-> BackupRefPath(BackupName(t)),
                      commit |-> HeadAt(t)] : t \in times}
            base == [EmptyRepo EXCEPT !.index = staged, !.refs = refs,
                                      !.branch = b, !.stash = stack,
                                      !.head = HeadAt(MaxBackups)]
        IN  \/ repo = base
            \/ \E t \in times, cb \in Branches \cup {""},
                  sha \in {<<>>, <<"stash0">>} :
                 repo = [base EXCEPT !.stateFile =
                    << [AbsorbStateOf([base EXCEPT !.head = HeadAt(t),
                                                   !.branch = cb],
                                      BackupRefPath(BackupName(t)), 1, t)
                          EXCEPT !.StashSHA = sha] >>]

\* cmt absorb --undo
Undo ==
    /\ mode = "undo"
    /\ \E inj \in SUBSET UndoSteps :
          LET u == UndoAbsorb(repo, inj)
          IN  /\ repo' = u.repo
              /\ run' = [cmd |-> "undo", err |-> u.err, log |-> u.log,
                         deleted |-> {}]
              /\ injected' = (inj # {})
    /\ UNCHANGED <<mode, parseVars, reviewVars, auxVars, plan, cfg, attempts, clock>>

\* cmt absorb --cleanup-backups
CleanupBackups ==
    /\ mode = "undo"
    /\ \E listFail \in BOOLEAN, delFail \in SUBSET {x.name : x \in repo.refs} :
          LET c == runCleanupBackups(repo, listFail, delFail)
          IN  /\ repo' = c.repo
              /\ run' = [cmd |-> "cleanup", err |-> c.err, log |-> <<>>,
                         deleted |-> c.deleted]
              /\ injected' = (listFail \/ delFail # {})
    /\ UNCHANGED <<mode, parseVars, reviewVars, auxVars, plan, cfg, attempts, clock>>

NextUndo == Undo \/ CleanupBackups

SpecUndo == InitUndo /\ [][NextUndo]_vars

(***************************************************************************)
(* SplitDiffIntoHunks.  A string is the sequence of its characters, the    *)
(* diff the sequence of its lines (bufio.Scanner splits at "\n").          *)
(***************************************************************************)
MaxBody == 3

TrimPrefix(str, prefix) ==
    IF HasPrefix(str, prefix) THEN SubSeq(str, Len(prefix) + 1, Len(str)) ELSE str

\* strings.Index / strings.LastIndex: 0-based, -1 when absent.
OccursAt(str, sub, i) ==
    i + Len(sub) <= Len(str) /\ SubSeq(str, i + 1, i + Len(sub)) = sub

Index(str, sub) ==
    IF \E i \in 0..Len(str) : OccursAt(str, sub, i)
    THEN CHOOSE i \in 0..Len(str) :
            OccursAt(str, sub, i) /\ \A j \in 0..(i - 1) : ~OccursAt(str, sub, j)
    ELSE -1

LastIndex(str, sub) ==
    IF \E i \in 0..Len(str) : OccursAt(str, sub, i)
    THEN CHOOSE i \in 0..Len(str) :
            OccursAt(str, sub, i) /\ \A j \in (i + 1)..Len(str) : ~OccursAt(str, sub, j)
    ELSE -1

\* strings.Split(str, sep) for a one-character separator.  (An intermediate
\* result is bound as the element of a one-element set, so that it is
\* computed once.)
RECURSIVE Split(_, _)
Split(str, sep) ==
    CHOOSE parts \in
        { IF i = -1 THEN <<str>>
          ELSE CHOOSE ps \in {<<SubSeq(str, 1, i)>> \o Split(rest, sep) :
                                rest \in {SubSeq(str, i + 2, Len(str))}} : TRUE
          : i \in {Index(str, <<sep>>)} } : TRUE

\* strings.Fields: the non-empty pieces between blanks.
Fields(str) ==
    LET NonEmpty(x) == x # <<>>
    IN  SelectSeq(Split(str, " "), NonEmpty)

\* fmt.Sscanf(str, "%d", &n): an optional sign, then at least one digit; the
\* digits that follow a first non-digit are not read.
IsDigit(c) == \E v \in 1..Len(Digits) : Digits[v] = c

DigitVal(c) == (CHOOSE v \in 1..Len(Digits) : Digits[v] = c) - 1

RECURSIVE ScanDigits(_, _, _)
ScanDigits(str, k, acc) ==
    IF k > Len(str) \/ ~IsDigit(str[k]) THEN acc
    ELSE ScanDigits(str, k + 1, acc * 10 + DigitVal(str[k]))

Sscanf(str) ==
    CHOOSE r \in
        { LET neg  == s # <<>> /\ s[1] = "-"
              from == IF s # <<>> /\ s[1] \in {"-", "+"} THEN 2 ELSE 1
              ok   == from <= Len(s) /\ IsDigit(s[from])
          IN  [ok |-> ok,
               val |-> IF ~ok THEN 0
                       ELSE IF neg THEN 0 - ScanDigits(s, from, 0)
                       ELSE ScanDigits(s, from, 0)]
          : s \in {str} } : TRUE

\* parseLineRange: "10,5" or "10" (count 1).
parseLineRange(rangeStr) ==
    CHOOSE r \in
        { LET start == IF parts[1] # <<>> THEN Sscanf(parts[1])
                       ELSE [ok |-> TRUE, val |-> 0]
              count == IF Len(parts) >= 2 THEN Sscanf(parts[2])
                       ELSE [ok |-> TRUE, val |-> 1]
          IN  [ok |-> start.ok /\ count.ok,
               start |-> start.val, count |-> count.val]
          : parts \in {Split(rangeStr, ",")} } : TRUE

\* strings.TrimSpace, for blanks.
RECURSIVE TrimSpace(_)
TrimSpace(str) ==
    IF str = <<>> THEN str
    ELSE IF str[1] = " " THEN TrimSpace(Tail(str))
    ELSE IF str[Len(str)] = " " THEN TrimSpace(SubSeq(str, 1, Len(str) - 1))
    ELSE str

AtAt == <<"@", "@">>

\* parseHunkHeader: @@ -old_start,old_count +new_start,new_count @@ context
parseHunkHeader(header, hunk) ==
    LET startIdx == Index(header, AtAt)
        endIdx   == LastIndex(header, AtAt)
        lineInfo == TrimSpace(SubSeq(header, startIdx + 3, endIdx))
        Ranges(parts) ==
            IF Len(parts) # 2 THEN {[ok |-> FALSE, hunk |-> hunk]}
            ELSE { IF ~old.ok THEN [ok |-> FALSE, hunk |-> hunk]
                   ELSE IF ~new.ok
                   THEN [ok |-> FALSE,
                         hunk |-> [hunk EXCEPT !.OldStartLine = old.start,
                                               !.OldLineCount = old.count]]
                   ELSE [ok |-> TRUE,
                         hunk |-> [hunk EXCEPT !.OldStartLine = old.start,
                                               !.OldLineCount = old.count,
                                               !.NewStartLine = new.start,
                                               !.NewLineCount = new.count]]
                   : old \in {parseLineRange(TrimPrefix(parts[1], <<"-">>))},
                     new \in {parseLineRange(TrimPrefix(parts[2], <<"+">>))} }
    IN  IF startIdx = -1 \/ endIdx = -1 \/ startIdx = endIdx
        THEN [ok |-> FALSE, hunk |-> hunk]
        ELSE CHOOSE r \in UNION {Ranges(parts) : parts \in {Fields(lineInfo)}} : TRUE

\* The line kinds the scanner tells apart.
DiffGitPrefix == <<"d", "i", "f", "f", " ", "-", "-", "g", "i", "t">>

NewFilePrefix == <<"n", "e", "w", " ", "f", "i", "l", "e", " ", "m", "o", "d", "e">>

DeletedFilePrefix == <<"d", "e", "l", "e", "t", "e", "d", " ", "f", "i", "l", "e", " ", "m", "o", "d", "e">>

RenameFromPrefix == <<"r", "e", "n", "a", "m", "e", " ", "f", "r", "o", "m">>

RenameToPrefix == <<"r", "e", "n", "a", "m", "e", " ", "t", "o">>

NewHunk(st, line) ==
    [FilePath |-> st.currentFile, OldFilePath |-> st.oldFile,
     IsNew |-> st.isNew, IsDeleted |-> st.isDeleted, IsRenamed |-> st.isRenamed,
     Header |-> line, Content |-> <<line>>, Lines |-> <<>>,
     ContextBefore |-> <<>>, ContextAfter |-> <<>>,
     AddedLines |-> <<>>, RemovedLines |-> <<>>,
     OldStartLine |-> 0, OldLineCount |-> 0,
     NewStartLine |-> 0, NewLineCount |-> 0]

\* "Categorize line."
CategorizeMutant(h, line) ==
    IF HasPrefix(line, <<"+">>) /\ ~HasPrefix(line, <<"+", "+", "+">>)
    THEN [h EXCEPT !.AddedLines = Append(@, TrimPrefix(line, <<"+">>))]
    ELSE IF HasPrefix(line, <<"-">>) /\ ~HasPrefix(line, <<"-", "-", "-">>)
    THEN [h EXCEPT !.RemovedLines = Append(@, TrimPrefix(line, <<"-">>))]
    ELSE IF HasPrefix(line, <<" ">>)
    THEN [h EXCEPT !.ContextBefore = Append(@, TrimPrefix(line, <<" ">>))]
    ELSE h

Categorize(h, line) ==
    IF HasPrefix(line, <<"+">>) /\ ~HasPrefix(line, <<"+", "+", "+">>)
    THEN [h EXCEPT !.AddedLines = Append(@, TrimPrefix(line, <<"+">>))]
    ELSE IF HasPrefix(line, <<"-">>) /\ ~HasPrefix(line, <<"-", "-", "-">>)
    THEN [h EXCEPT !.RemovedLines = Append(@, TrimPrefix(line, <<"-">>))]
    ELSE IF HasPrefix(line, <<" ">>)
    THEN IF Len(h.AddedLines) = 0 /\ Len(h.RemovedLines) = 0
         THEN [h EXCEPT !.ContextBefore = Append(@, TrimPrefix(line, <<" ">>))]
         ELSE [h EXCEPT !.ContextAfter = Append(@, TrimPrefix(line, <<" ">>))]
    ELSE h

\* The scanner's locals; currentHunk is <<>> (nil) or <<hunk>>.
ScanStart ==
    [hunks |-> <<>>, currentFile |-> <<>>, oldFile |-> <<>>,
     isNew |-> FALSE, isDeleted |-> FALSE, isRenamed |-> FALSE,
     currentHunk |-> <<>>, inHunk |-> FALSE, err |-> FALSE]

\* "File header: diff --git a/file b/file."
OnFileHeader(st, line) ==
    IF ~HasPrefix(line, DiffGitPrefix) THEN st
    ELSE LET saved == IF st.currentHunk # <<>> /\ st.inHunk
                      THEN [st EXCEPT !.hunks = Append(@, st.currentHunk[1]),
                                      !.currentHunk = <<>>, !.inHunk = FALSE]
                      ELSE st
             parts == Split(line, " ")
             named == IF Len(parts) >= 4
                      THEN [saved EXCEPT
                              !.currentFile = TrimPrefix(parts[4], <<"b", "/">>),
                              !.oldFile = TrimPrefix(parts[3], <<"a", "/">>)]
                      ELSE saved
         IN  [named EXCEPT !.isNew = FALSE, !.isDeleted = FALSE, !.isRenamed = FALSE]

\* "File status headers."
OnStatusHeader(st, line) ==
    IF HasPrefix(line, NewFilePrefix) THEN [st EXCEPT !.isNew = TRUE]
    ELSE IF HasPrefix(line, DeletedFilePrefix) THEN [st EXCEPT !.isDeleted = TRUE]
    ELSE IF HasPrefix(line, RenameFromPrefix)
    THEN [st EXCEPT !.isRenamed = TRUE,
                    !.oldFile = TrimPrefix(line, RenameFromPrefix \o <<" ">>)]
    ELSE IF HasPrefix(line, RenameToPrefix)
    THEN [st EXCEPT !.currentFile = TrimPrefix(line, RenameToPrefix \o <<" ">>)]
    ELSE st

\* "Hunk header" or a line of the current hunk.
OnHunkLine(st, line) ==
    IF HasPrefix(line, AtAt) /\ Index(line, AtAt) # -1
    THEN LET saved  == IF st.currentHunk # <<>> /\ st.inHunk
                       THEN [st EXCEPT !.hunks = Append(@, st.currentHunk[1])]
                       ELSE st
             parsed == parseHunkHeader(line, NewHunk(st, line))
         IN  IF ~parsed.ok
             THEN [saved EXCEPT !.currentHunk = <<parsed.hunk>>, !.err = TRUE]
             ELSE [saved EXCEPT !.currentHunk = <<parsed.hunk>>, !.inHunk = TRUE]
    ELSE IF st.inHunk /\ st.currentHunk # <<>>
    THEN LET h == [st.currentHunk[1] EXCEPT !.Content = Append(@, line),
                                            !.Lines = Append(@, line)]
         IN  [st EXCEPT !.currentHunk = <<Categorize(h, line)>>]
    ELSE st

RECURSIVE ScanLines(_, _, _)
ScanLines(lines, k, st) ==
    IF st.err \/ k > Len(lines) THEN st
    ELSE LET line == lines[k]
             step == {OnHunkLine(s3, line) :
                        s3 \in {OnStatusHeader(s2, line) :
                                  s2 \in {OnFileHeader(st, line)}}}
         IN  CHOOSE end \in {ScanLines(lines, k + 1, next) : next \in step} : TRUE

SplitDiffIntoHunks(lines) ==
    LET st == ScanLines(lines, 1, ScanStart)
    IN  IF st.err THEN [err |-> TRUE, hunks |-> <<>>]
        ELSE IF st.currentHunk # <<>> /\ st.inHunk
        THEN [err |-> FALSE, hunks |-> Append(st.hunks, st.currentHunk[1])]
        ELSE [err |-> FALSE, hunks |-> st.hunks]

\* The diffs handed in: "git diff --cached" output for a file, a first hunk
\* header, and up to MaxBody lines drawn from the kinds of line that follow.
FileHeaderLines ==
    << <<"d", "i", "f", "f", " ", "-", "-", "g", "i", "t", " ", "a", "/", "f", " ", "b", "/", "f">>,
       <<"-", "-", "-", " ", "a", "/", "f">>,
       <<"+", "+", "+", " ", "b", "/", "f">> >>

HunkHeaderA == <<"@", "@", " ", "-", "1", ",", "2", " ", "+", "1", ",", "3", " ", "@", "@">>

BodyLines ==
    { <<" ", "a">>, <<"-", "b">>, <<"+", "c">>,
      <<"+", "+", "+", "i">>,
      <<"-", "-", "-", "x">>,
      <<>>,
      <<"\\", " ", "N", "o", " ", "n", "e", "w", "l", "i", "n", "e", " ", "a", "t", " ", "e", "n", "d", " ", "o", "f", " ", "f", "i", "l", "e">> }

OtherLines ==
    { <<"@", "@", " ", "-", "5", " ", "+", "7", ",", "0", " ", "@", "@", " ", "f", "n">>,
      <<"@", "@", " ", "-", "1", ",", "2", " ", "@", "@">>,
      <<"d", "i", "f", "f", " ", "-", "-", "g", "i", "t", " ", "a", "/", "g", " ", "b", "/", "g">>,
      <<"n", "e", "w", " ", "f", "i", "l", "e", " ", "m", "o", "d", "e", " ", "1", "0", "0", "6", "4", "4">> }

IdleRest == IdleParse /\ IdleReview /\ IdleRepo /\ IdleCheck /\ IdleFilter /\ IdleRecord

InitSplit ==
    /\ mode = "split"
    /\ IdleRest
    /\ \E rest \in SeqsUpTo(BodyLines \cup OtherLines, MaxBody) :
          diff = FileHeaderLines \o <<HunkHeaderA>> \o rest
    /\ split = [done |-> FALSE, err |-> FALSE, hunks |-> <<>>]

SplitDiff ==
    /\ mode = "split" /\ ~split.done
    /\ LET out == SplitDiffIntoHunks(diff)
       IN  split' = [done |-> TRUE, err |-> out.err, hunks |-> out.hunks]
    /\ UNCHANGED <<mode, parseVars, reviewVars, repoVars, chk, diff, filt, undoFile>>

NextSplit == SplitDiff

SpecSplit == InitSplit /\ [][NextSplit]_vars

(***************************************************************************)
(* The oracle call: executeClaudeCommand, then the head of                 *)
(* parseAbsorbResponse that turns the reply text into JSON.  The reply is  *)
(* a sequence of tokens: "{" and "}", "f" (a well-typed field), "t" (a     *)
(* field of the wrong type), "x" (prose), "fence" (the opening json code   *)
(* fence), "end" (the closing fence) and "\n".                             *)
(***************************************************************************)
MaxText == 2

TextTokens == {"{", "}", "f", "t", "x", "fence", "\n"}

OracleTexts ==
    { <<"{", "f", "}">>,
      <<"\n", "{", "\n", "f", "{", "f", "}", "\n", "}", "\n">>,
      <<"x", "\n", "{", "f", "}", "\n", "x">>,
      <<"x", "\n", "{", "\n", "f", "{", "f", "}", "\n", "}">>,
      <<"fence", "\n", "{", "\n", "f", "\n", "}", "\n", "end">>,
      <<"fence", "\n", "{", "t", "}", "\n", "end">>,
      <<"{", "t", "}">> } \cup SeqsUpTo(TextTokens, MaxText)

\* How the claude command ends: it fails, it is killed by the timeout, or
\* it exits normally with the text on stdout.
ExecOutcomes == {"exit", "timeout", "ok"}

\* executeClaudeCommand
executeClaudeCommand(outcome, text) ==
    IF outcome # "ok" THEN [err |-> TRUE, output |-> <<>>]
    ELSE IF text = <<>> THEN [err |-> TRUE, output |-> <<>>]
    ELSE [err |-> FALSE, output |-> text]

\* strings.TrimSpace on the reply.
RECURSIVE TrimNewlines(_)
TrimNewlines(text) ==
    IF text = <<>> THEN text
    ELSE IF text[1] = "\n" THEN TrimNewlines(Tail(text))
    ELSE IF text[Len(text)] = "\n" THEN TrimNewlines(SubSeq(text, 1, Len(text) - 1))
    ELSE text

\* Nesting depth after each token, 0 before the first; -1 once broken.
RECURSIVE Depths(_, _, _)
Depths(text, k, d) ==
    IF k > Len(text) THEN <<>>
    ELSE LET nd == IF text[k] = "{" THEN d + 1
                   ELSE IF text[k] = "}" THEN d - 1 ELSE d
         IN  <<nd>> \o Depths(text, k + 1, nd)

\* json.Unmarshal into absorbJSONResponse: the text must be one object and
\* nothing else; a field of the wrong type is an error too (the fields read
\* before it stay in the target).
Unmarshal(text) ==
    LET body   == SelectSeq(text, LAMBDA c : c # "\n")
        ds     == Depths(body, 1, 0)
        syntax == /\ Len(body) >= 2 /\ body[1] = "{"
                  /\ ds[Len(body)] = 0
                  /\ \A k \in 1..(Len(body) - 1) : ds[k] >= 1
                  /\ \A k \in 1..Len(body) : body[k] \in {"{", "}", "f", "t"}
        typed  == \A k \in 1..Len(body) : body[k] # "t"
    IN  [err |-> ~(syntax /\ typed), partial |-> syntax /\ ~typed]

\* "Remove code block markers if present."
StripFence(text) ==
    LET start == Index(text, <<"{">>)
        end   == LastIndex(text, <<"}">>)
    IN  IF Index(text, <<"fence">>) # -1 /\ start >= 0 /\ end > start
        THEN SubSeq(text, start + 1, end + 1)
        ELSE text

\* "Try to extract JSON from the response."
RECURSIVE RecoverLines(_, _, _, _)
RecoverLines(lines, k, inJSON, acc) ==
    IF k > Len(lines) THEN acc
    ELSE LET open   == inJSON \/ Index(lines[k], <<"{">>) # -1
             acc2   == IF open THEN acc \o lines[k] \o <<"\n">> ELSE acc
             closes == Index(lines[k], <<"}">>) # -1 /\ open
         IN  IF closes THEN acc2 ELSE RecoverLines(lines, k + 1, open, acc2)

\* parseAbsorbResponse up to "Convert to AbsorbResponse".
ParseJSON(response) ==
    LET text    == StripFence(TrimNewlines(response))
        strict  == Unmarshal(text)
        jsonStr == RecoverLines(Split(text, "\n"), 1, FALSE, <<>>)
    IN  IF ~strict.err THEN [err |-> FALSE, how |-> "strict"]
        ELSE IF jsonStr = <<>> THEN [err |-> TRUE, how |-> "none"]
        ELSE IF Unmarshal(jsonStr).err THEN [err |-> TRUE, how |-> "recovery"]
        ELSE [err |-> FALSE, how |-> "recovery"]

\* ClaudeCLI.AnalyzeHunkAssignment; answer is the AbsorbResponse the JSON
\* converts to.  The response is <<>> (nil) or <<response>>.
AnalyzeHunkAssignmentMutant(outcome, text, answer) ==
    LET exec   == executeClaudeCommand(outcome, text)
        parsed == ParseJSON(exec.output)
    IN  IF exec.err THEN [err |-> TRUE, resp |-> <<>>, why |-> "exec"]
        ELSE IF parsed.err
        THEN [err |-> TRUE, resp |-> <<[answer EXCEPT !.Assignments = <<>>]>>,
              why |-> parsed.how]
        ELSE [err |-> FALSE, resp |-> <<answer>>, why |-> parsed.how]

AnalyzeHunkAssignment(outcome, text, answer) ==
    LET exec   == executeClaudeCommand(outcome, text)
        parsed == ParseJSON(exec.output)
    IN  IF exec.err THEN [err |-> TRUE, resp |-> <<>>, why |-> "exec"]
        ELSE IF parsed.err THEN [err |-> TRUE, resp |-> <<>>, why |-> parsed.how]
        ELSE [err |-> FALSE, resp |-> <<answer>>, why |-> parsed.how]

(***************************************************************************)
(* runAbsorb from its first step: steps 1 to 9 lead into the step 10 to 14 *)
(* actions above.  run.stages lists the stages entered so far, run.entry   *)
(* and run.atReview are the repository at entry and when the review opens. *)
(***************************************************************************)
MaxKeys == 1

\* The order of the steps of runAbsorb up to the dry-run exit.
StageAfterMutant(pc) ==
    CASE pc = "start"    -> "range"
      [] pc = "range"    -> "parse"
      [] pc = "parse"    -> "provider"
      [] pc = "provider" -> "oracle"
      [] pc = "oracle"   -> "review"
      [] pc = "review"   -> "conflict"
      [] pc = "conflict" -> "dryrun"

StageAfter(pc) ==
    CASE pc = "start"    -> "range"
      [] pc = "range"    -> "parse"
      [] pc = "parse"    -> "conflict"
      [] pc = "conflict" -> "provider"
      [] pc = "provider" -> "oracle"
      [] pc = "oracle"   -> "review"
      [] pc = "review"   -> "dryrun"

\* "Step 4: Check for potential conflicts (unless dry-run)."
RunsConflictCheckMutant(c) == TRUE

RunsConflictCheck(c) == ~c.dryRun

\* "Step 8: Interactive review (unless --yes or dry-run)."
RunsReview(c, p) == ~c.yes /\ ~c.dryRun /\ Len(p.Assignments) > 0

\* ShowAbsorbReview on the response runAbsorb holds: the reviewer unassigns
\* the entries at the positions us (each the cursor at that moment), then
\* accepts or cancels.  The result is GetResult's, with the value the
\* caller's own response has by then.
RECURSIVE PressUnassign(_, _, _)
PressUnassign(h, model, us) ==
    IF us = <<>> THEN [heap |-> h, m |-> model]
    ELSE IF us[1] >= model.assignments.len THEN PressUnassign(h, model, Tail(us))
    ELSE LET a1 == GoAppend(h, model.unmatched,
                            h[model.assignments.arr][us[1] + 1].Hunk)
             a2 == GoDelete(a1.heap, model.assignments, us[1])
         IN  PressUnassign(a2.heap,
                           [model EXCEPT !.unmatched = a1.slice,
                                         !.assignments = a2.slice],
                           Tail(us))

ShowAbsorbReviewMutant(p, us, last) ==
    LET caller == [Assignments    |-> [arr |-> 1, len |-> Len(p.Assignments)],
                   UnmatchedHunks |-> [arr |-> 2, len |-> Len(p.UnmatchedHunks)]]
        after  == PressUnassign(<<p.Assignments, p.UnmatchedHunks>>,
                                [assignments   |-> caller.Assignments,
                                 unmatched     |-> caller.UnmatchedHunks,
                                 accepted      |-> FALSE,
                                 cancelled     |-> FALSE,
                                 modifications |-> <<>>], us)
        r      == GetResult([after.m EXCEPT !.accepted = TRUE])
    IN  [accepted |-> r.accepted,
         resp     |-> IF r.modified THEN <<RespVal(after.heap, r.resp)>> ELSE <<>>,
         caller   |-> RespVal(after.heap, caller)]

ShowAbsorbReview(p, us, last) ==
    LET caller == [Assignments    |-> [arr |-> 1, len |-> Len(p.Assignments)],
                   UnmatchedHunks |-> [arr |-> 2, len |-> Len(p.UnmatchedHunks)]]
        after  == PressUnassign(<<p.Assignments, p.UnmatchedHunks>>,
                                [assignments   |-> caller.Assignments,
                                 unmatched     |-> caller.UnmatchedHunks,
                                 accepted      |-> FALSE,
                                 cancelled     |-> FALSE,
                                 modifications |-> <<>>], us)
        r      == GetResult([after.m EXCEPT !.accepted = (last = "accept"),
                                            !.cancelled = (last = "cancel")])
    IN  [accepted |-> r.accepted,
         resp     |-> IF r.modified THEN <<RespVal(after.heap, r.resp)>> ELSE <<>>,
         caller   |-> RespVal(after.heap, caller)]

RunConfigs ==
    [autoCommit : BOOLEAN, noNewCommit : {FALSE}, rebase : BOOLEAN,
     yes : BOOLEAN, dryRun : BOOLEAN]

FreshRun(r) ==
    [pc |-> "start", pending |-> {}, backupRef |-> <<>>, stages |-> <<>>,
     entry |-> r, atReview |-> <<>>, review |-> "none", oracle |-> <<>>]

InitRun ==
    /\ mode = "absorb"
    /\ IdleParse /\ IdleReview
    /\ IdleCheck /\ IdleSplit /\ IdleFilter /\ IdleRecord
    /\ \E staged \in SUBSET StagedUniverse :
          repo = [EmptyRepo EXCEPT !.index = staged]
    /\ plan = [Assignments |-> <<>>, UnmatchedHunks |-> <<>>]
    /\ cfg \in RunConfigs
    /\ run = FreshRun(repo)
    /\ attempts = <<>>
    /\ injected = FALSE
    /\ clock = 1

FrontUnchanged ==
    UNCHANGED <<mode, parseVars, reviewVars, auxVars, cfg, attempts, injected, clock>>

\* Step 1: HasStagedChanges.
CheckStaged ==
    /\ mode = "absorb" /\ run.pc = "start"
    /\ \E fail \in BOOLEAN :
          run' = [run EXCEPT !.pc = IF fail THEN "failed"
                                    ELSE IF repo.index = {} THEN "returned"
                                    ELSE StageAfter("start")]
    /\ UNCHANGED <<repo, plan>>
    /\ FrontUnchanged

\* Step 2: the candidate commits; none found returns.
ResolveRange ==
    /\ mode = "absorb" /\ run.pc = "range"
    /\ \E outcome \in {"err", "empty", "ok"} :
          run' = [run EXCEPT !.pc = CASE outcome = "err"   -> "failed"
                                      [] outcome = "empty" -> "returned"
                                      [] OTHER             -> StageAfter("range")]
    /\ UNCHANGED <<repo, plan>>
    /\ FrontUnchanged

\* Step 3: GetDiff and SplitDiffIntoHunks.
ParseStep ==
    /\ mode = "absorb" /\ run.pc = "parse"
    /\ \E fail \in BOOLEAN :
          run' = [run EXCEPT !.pc = IF fail THEN "failed" ELSE StageAfter("parse"),
                             !.stages = Append(@, "parse")]
    /\ UNCHANGED <<repo, plan>>
    /\ FrontUnchanged

\* Step 4: CheckRebaseConflicts, skipped on a dry run.  An error returns; on
\* conflicts without --yes the user is asked and "n" returns.  The check may
\* come back with the disposable branch still checked out.
ConflictStep ==
    /\ mode = "absorb" /\ run.pc = "conflict"
    /\ IF RunsConflictCheck(cfg)
       THEN \E outcome \in {"err", "clean", "conflicts"}, answer \in {"y", "n"},
               stuck \in BOOLEAN :
              /\ stuck => outcome = "err"
              /\ repo' = IF stuck THEN [repo EXCEPT !.branch = TempBranch] ELSE repo
              /\ run' = [run EXCEPT
                           !.pc = CASE outcome = "err" -> "failed"
                                    [] outcome = "conflicts" /\ ~cfg.yes /\ answer = "n"
                                         -> "returned"
                                    [] OTHER -> StageAfter("conflict"),
                           !.stages = Append(@, "conflict")]
       ELSE /\ run' = [run EXCEPT !.pc = StageAfter("conflict")]
            /\ UNCHANGED repo
    /\ UNCHANGED plan
    /\ FrontUnchanged

\* Step 5: NewClaudeCLI and IsAvailable.
ProviderStep ==
    /\ mode = "absorb" /\ run.pc = "provider"
    /\ \E available \in BOOLEAN :
          run' = [run EXCEPT !.pc = IF available THEN StageAfter("provider")
                                    ELSE "failed"]
    /\ UNCHANGED <<repo, plan>>
    /\ FrontUnchanged

\* Step 6: provider.AnalyzeHunkAssignment over the staged hunks.
OracleStep ==
    /\ mode = "absorb" /\ run.pc = "oracle"
    /\ \E target \in [repo.index -> TargetShas \cup {NoTarget}] :
          \E res \in {AnalyzeHunkAssignment(outcome, text,
                                            PlanFor(repo.index, target)) :
                         outcome \in ExecOutcomes, text \in OracleTexts} :
             /\ run' = [run EXCEPT
                          !.pc = IF res.err THEN "failed" ELSE StageAfter("oracle"),
                          !.stages = Append(@, "oracle"),
                          !.oracle = <<[err |-> res.err, resp |-> res.resp,
                                        why |-> res.why]>>]
             /\ plan' = IF res.resp # <<>> THEN res.resp[1] ELSE plan
    /\ UNCHANGED repo
    /\ FrontUnchanged

\* Step 8: the review; not accepted returns, a modified response replaces
\* the one held.
ReviewStep ==
    /\ mode = "absorb" /\ run.pc = "review"
    /\ IF RunsReview(cfg, plan)
       THEN \E us \in SeqsUpTo(0..(Len(plan.Assignments) - 1), MaxKeys),
               last \in {"accept", "cancel"} :
            \E r \in {ShowAbsorbReview(plan, us, last)} :
              /\ run' = [run EXCEPT
                           !.pc = IF r.accepted THEN StageAfter("review")
                                  ELSE "returned",
                           !.stages = Append(@, "review"),
                           !.atReview = <<repo>>,
                           !.review = [last |-> last, accepted |-> r.accepted,
                                       resp |-> r.resp]]
              /\ plan' = IF r.resp # <<>> THEN r.resp[1] ELSE r.caller
       ELSE /\ run' = [run EXCEPT !.pc = StageAfter("review")]
            /\ UNCHANGED plan
    /\ UNCHANGED repo
    /\ FrontUnchanged

\* Step 9: a dry run prints the plan and returns; otherwise step 10 starts.
DryRunStep ==
    /\ mode = "absorb" /\ run.pc = "dryrun"
    /\ run' = IF cfg.dryRun THEN [run EXCEPT !.pc = "returned"]
              ELSE [run EXCEPT !.pc = IF Len(plan.Assignments) > 0
                                      THEN "apply" ELSE "backup",
                               !.pending = PlanTargets(plan)]
    /\ UNCHANGED <<repo, plan>>
    /\ FrontUnchanged

NextRun ==
    \/ CheckStaged \/ ResolveRange \/ ParseStep \/ ConflictStep
    \/ ProviderStep \/ OracleStep \/ ReviewStep \/ DryRunStep
    \/ ApplyAssignments \/ CreateBackup \/ HandleUnmatched \/ SaveState \/ Rebase

SpecRun == InitRun /\ [][NextRun]_vars

(***************************************************************************)
(* A working session: cmt absorb and cmt absorb --undo, one after the      *)
(* other, on one repository.  Besides the fields of an execution, run      *)
(* keeps execs (executions started), lastFixup (<<ref>> for the backup ref *)
(* of the latest execution that created a fixup commit, <<>> inside when   *)
(* it created none, <<>> when there was no such execution) and undo (what  *)
(* the undo just run did).                                                 *)
(***************************************************************************)
MaxRuns == 2

LifeConfigs ==
    [autoCommit : {FALSE}, noNewCommit : {FALSE}, rebase : {FALSE},
     yes : {TRUE}, dryRun : {FALSE}]

Between == run.pc \in {"idle", "returned", "failed", "done", "undone"}

LastFixup == IF CreatedFixup THEN << run.backupRef >> ELSE run.lastFixup

LifeRun(r, pc, n, lf, u) ==
    [FreshRun(r) EXCEPT !.pc = pc] @@ [execs |-> n, lastFixup |-> lf, undo |-> u]

InitLife ==
    /\ mode = "absorb"
    /\ IdleParse /\ IdleReview
    /\ IdleCheck /\ IdleSplit /\ IdleFilter /\ IdleRecord
    /\ repo = EmptyRepo
    /\ plan = [Assignments |-> <<>>, UnmatchedHunks |-> <<>>]
    /\ cfg \in LifeConfigs
    /\ run = LifeRun(repo, "idle", 0, <<>>, <<>>)
    /\ attempts = <<>>
    /\ injected = FALSE
    /\ clock = 0

\* The user stages one more change, or none, and runs cmt absorb.
Stageable(r) ==
    {{}} \cup {{h} : h \in StagedUniverse \ (r.index \cup HeadHunks(r))}

StartRun ==
    /\ mode = "absorb" /\ Between /\ run.execs < MaxRuns
    /\ \E more \in Stageable(repo), c \in LifeConfigs :
          /\ repo' = [repo EXCEPT !.index = @ \cup more]
          /\ cfg' = c
          /\ run' = LifeRun(repo', "start", run.execs + 1, LastFixup, <<>>)
    /\ plan' = [Assignments |-> <<>>, UnmatchedHunks |-> <<>>]
    /\ attempts' = <<>>
    /\ clock' = clock + 1
    /\ UNCHANGED <<mode, parseVars, reviewVars, auxVars, injected>>

\* cmt absorb --undo: runAbsorbUndo.
LifeUndo ==
    /\ mode = "absorb" /\ Between
    /\ \E inj \in SUBSET UndoSteps :
       \E u \in {UndoAbsorb(repo, inj)} :
          /\ repo' = u.repo
          /\ run' = LifeRun(run.entry, "undone", run.execs, LastFixup,
                            << [before |-> repo, err |-> u.err, log |-> u.log] >>)
          /\ injected' = (injected \/ inj # {})
    /\ attempts' = <<>>
    /\ UNCHANGED <<mode, parseVars, reviewVars, auxVars, plan, cfg, clock>>

NextLife == NextRun \/ StartRun \/ LifeUndo

SpecLife == InitLife /\ [][NextLife]_vars

(***************************************************************************)
(* preprocess.Process.  The diff and the result are sequences of lines     *)
(* (strings.Split at "\n" on entry, strings.Join with "\n" on return), a   *)
(* line the sequence of its characters.                                    *)
(***************************************************************************)
MaxFiles == 2
SmallLimit == 12
DefaultMaxTokens == 16384

binaryExtensions ==
    { <<".", "p", "n", "g">>,
      <<".", "j", "p", "g">>,
      <<".", "j", "p", "e", "g">>,
      <<".", "g", "i", "f">>,
      <<".", "b", "m", "p">>,
      <<".", "i", "c", "o">>,
      <<".", "s", "v", "g">>,
      <<".", "w", "e", "b", "p">>,
      <<".", "p", "d", "f">>,
      <<".", "d", "o", "c">>,
      <<".", "d", "o", "c", "x">>,
      <<".", "x", "l", "s">>,
      <<".", "x", "l", "s", "x">>,
      <<".", "p", "p", "t">>,
      <<".", "p", "p", "t", "x">>,
      <<".", "z", "i", "p">>,
      <<".", "t", "a", "r">>,
      <<".", "g", "z">>,
      <<".", "b", "z", "2">>,
      <<".", "r", "a", "r">>,
      <<".", "7", "z">>,
      <<".", "e", "x", "e">>,
      <<".", "d", "l", "l">>,
      <<".", "s", "o">>,
      <<".", "d", "y", "l", "i", "b">>,
      <<".", "a", "p", "p">>,
      <<".", "d", "e", "b">>,
      <<".", "r", "p", "m">>,
      <<".", "d", "m", "g">>,
      <<".", "p", "k", "g">>,
      <<".", "m", "p", "3">>,
      <<".", "m", "p", "4">>,
      <<".", "a", "v", "i">>,
      <<".", "m", "o", "v">>,
      <<".", "w", "m", "v">>,
      <<".", "f", "l", "v">>,
      <<".", "w", "a", "v">>,
      <<".", "f", "l", "a", "c">>,
      <<".", "t", "t", "f">>,
      <<".", "o", "t", "f">>,
      <<".", "w", "o", "f", "f">>,
      <<".", "w", "o", "f", "f", "2">>,
      <<".", "e", "o", "t">>,
      <<".", "d", "b">>,
      <<".", "s", "q", "l", "i", "t", "e">> }

generatedFiles ==
    { <<"p", "a", "c", "k", "a", "g", "e", "-", "l", "o", "c", "k", ".", "j", "s", "o", "n">>,
      <<"y", "a", "r", "n", ".", "l", "o", "c", "k">>,
      <<"p", "n", "p", "m", "-", "l", "o", "c", "k", ".", "y", "a", "m", "l">>,
      <<"g", "o", ".", "s", "u", "m">>,
      <<"G", "e", "m", "f", "i", "l", "e", ".", "l", "o", "c", "k">>,
      <<"C", "a", "r", "g", "o", ".", "l", "o", "c", "k">>,
      <<"p", "o", "e", "t", "r", "y", ".", "l", "o", "c", "k">>,
      <<"c", "o", "m", "p", "o", "s", "e", "r", ".", "l", "o", "c", "k">>,
      <<"P", "o", "d", "f", "i", "l", "e", ".", "l", "o", "c", "k">>,
      <<".", "D", "S", "_", "S", "t", "o", "r", "e">>,
      <<"T", "h", "u", "m", "b", "s", ".", "d", "b">>,
      <<"d", "e", "s", "k", "t", "o", "p", ".", "i", "n", "i">> }

MetadataPrefixes ==
    { <<"d", "e", "l", "e", "t", "e", "d", " ", "f", "i", "l", "e", " ", "m", "o", "d", "e">>,
      <<"n", "e", "w", " ", "f", "i", "l", "e", " ", "m", "o", "d", "e">>,
      <<"o", "l", "d", " ", "m", "o", "d", "e">>,
      <<"n", "e", "w", " ", "m", "o", "d", "e">>,
      <<"s", "i", "m", "i", "l", "a", "r", "i", "t", "y", " ", "i", "n", "d", "e", "x">>,
      <<"r", "e", "n", "a", "m", "e", " ", "f", "r", "o", "m">>,
      <<"r", "e", "n", "a", "m", "e", " ", "t", "o">>,
      <<"c", "o", "p", "y", " ", "f", "r", "o", "m">>,
      <<"c", "o", "p", "y", " ", "t", "o">> }

UpperCase == <<"A", "B", "C", "D", "E", "F", "G", "H", "I", "J", "K", "L", "M", "N", "O", "P", "Q", "R", "S", "T", "U", "V", "W", "X", "Y", "Z">>

LowerCase == <<"a", "b", "c", "d", "e", "f", "g", "h", "i", "j", "k", "l", "m", "n", "o", "p", "q", "r", "s", "t", "u", "v", "w", "x", "y", "z">>

\* strings.ToLower
ToLower(str) ==
    [i \in 1..Len(str) |->
        IF \E k \in 1..Len(UpperCase) : UpperCase[k] = str[i]
        THEN LowerCase[CHOOSE k \in 1..Len(UpperCase) : UpperCase[k] = str[i]]
        ELSE str[i]]

Contains(str, sub) == Index(str, sub) # -1

\* filepath.Base of a path that does not end in a separator.
Base(path) ==
    LET i == LastIndex(path, <<"/">>)
    IN  IF i = -1 THEN path ELSE SubSeq(path, i + 2, Len(path))

\* filepath.Ext: from the last dot of the last element, "" without one.
Ext(path) ==
    LET i == LastIndex(Base(path), <<".">>)
    IN  IF i = -1 THEN <<>> ELSE SubSeq(Base(path), i + 1, Len(Base(path)))

\* extractFilePath
extractFilePath(diffLine) ==
    LET a == Index(diffLine, <<" ", "a", "/">>)
        b == Index(diffLine, <<" ", "b", "/">>)
        UpToSpace(remaining) ==
            IF Index(remaining, <<" ">>) # -1
            THEN SubSeq(remaining, 1, Index(remaining, <<" ">>))
            ELSE remaining
    IN  IF a # -1
        THEN LET rest == SubSeq(diffLine, a + 4, Len(diffLine))
                 e    == Index(rest, <<" ", "b", "/">>)
             IN  IF e # -1 THEN SubSeq(rest, 1, e) ELSE UpToSpace(rest)
        ELSE IF b # -1 THEN UpToSpace(SubSeq(diffLine, b + 4, Len(diffLine)))
        ELSE <<>>

IsMinified(filename) ==
    Contains(filename, <<".", "m", "i", "n", ".", "j", "s">>) \/ Contains(filename, <<".", "m", "i", "n", ".", "c", "s", "s">>)

\* shouldSkipFile
shouldSkipFile(path, opts) ==
    /\ path # <<>>
    /\ \/ opts.FilterGenerated /\ Base(path) \in generatedFiles
       \/ opts.FilterMinified /\ IsMinified(Base(path))
       \/ opts.FilterBinary /\ ToLower(Ext(path)) \in binaryExtensions

\* fileFilterReason, in parentheses as Process adds it.
fileFilterNote(path, opts) ==
    IF opts.FilterGenerated /\ Base(path) \in generatedFiles
    THEN <<"(", "g", "e", "n", "e", "r", "a", "t", "e", "d", "/", "l", "o", "c", "k", " ", "f", "i", "l", "e", " ", "c", "o", "n", "t", "e", "n", "t", " ", "f", "i", "l", "t", "e", "r", "e", "d", ")">>
    ELSE IF opts.FilterMinified /\ IsMinified(Base(path))
    THEN <<"(", "m", "i", "n", "i", "f", "i", "e", "d", " ", "f", "i", "l", "e", " ", "c", "o", "n", "t", "e", "n", "t", " ", "f", "i", "l", "t", "e", "r", "e", "d", ")">>
    ELSE IF opts.FilterBinary /\ ToLower(Ext(path)) \in binaryExtensions
    THEN <<"(", "b", "i", "n", "a", "r", "y", " ", "f", "i", "l", "e", " ", "c", "o", "n", "t", "e", "n", "t", " ", "f", "i", "l", "t", "e", "r", "e", "d", ")">>
    ELSE <<"(", "f", "i", "l", "e", " ", "c", "o", "n", "t", "e", "n", "t", " ", "f", "i", "l", "t", "e", "r", "e", "d", ")">>

\* isFileMetadataLine
isFileMetadataLine(line) == \E pre \in MetadataPrefixes : HasPrefix(line, pre)

\* estimateTokens: about four characters a token, at least one for a line
\* that is not blank.
estimateTokens(text) ==
    LET t == TrimSpace(text)
    IN  IF t = <<>> THEN 0
        ELSE IF Len(t) \div 4 < 1 THEN 1 ELSE Len(t) \div 4

BinaryOmitted == <<"B", "i", "n", "a", "r", "y", " ", "f", "i", "l", "e", " ", "(", "c", "o", "n", "t", "e", "n", "t", " ", "o", "m", "i", "t", "t", "e", "d", ")">>

TruncationNote == <<".", ".", ".", " ", "(", "d", "i", "f", "f", " ", "t", "r", "u", "n", "c", "a", "t", "e", "d", " ", "d", "u", "e", " ", "t", "o", " ", "t", "o", "k", "e", "n", " ", "l", "i", "m", "i", "t", ")">>

\* One pass of the loop of Process over a line; st is result,
\* skipCurrentFile, tokensUsed and truncated.
ProcessLine(line, st, opts) ==
    LET lineTokens == estimateTokens(line)
        keep == [st EXCEPT !.result = Append(@, line),
                           !.tokensUsed = @ + lineTokens]
    IN  IF st.tokensUsed + lineTokens > opts.MaxTokens
        THEN [st EXCEPT !.truncated = TRUE]
        ELSE IF HasPrefix(line, DiffGitPrefix)
        THEN IF shouldSkipFile(extractFilePath(line), opts)
             THEN [keep EXCEPT
                     !.result = Append(@, fileFilterNote(extractFilePath(line), opts)),
                     !.tokensUsed = @ + estimateTokens(
                                          fileFilterNote(extractFilePath(line), opts)),
                     !.skipCurrentFile = TRUE]
             ELSE [keep EXCEPT !.skipCurrentFile = FALSE]
        ELSE IF st.skipCurrentFile
        THEN IF isFileMetadataLine(line) THEN keep ELSE st
        ELSE IF /\ Contains(line, <<"B", "i", "n", "a", "r", "y", " ", "f", "i", "l", "e", "s">>)
                /\ Contains(line, <<"d", "i", "f", "f", "e", "r">>)
                /\ opts.FilterBinary
        THEN [st EXCEPT !.result = Append(@, BinaryOmitted),
                        !.tokensUsed = @ + estimateTokens(BinaryOmitted),
                        !.skipCurrentFile = TRUE]
        ELSE keep

RECURSIVE ProcessLines(_, _, _, _)
ProcessLines(lines, k, st, opts) ==
    IF k > Len(lines) THEN st
    ELSE CHOOSE r \in
           { IF nx.truncated THEN nx ELSE ProcessLines(lines, k + 1, nx, opts)
             : nx \in {ProcessLine(lines[k], st, opts)} } : TRUE

\* Process
Process(lines, opts) ==
    LET limit == IF opts.MaxTokens = 0 THEN DefaultMaxTokens ELSE opts.MaxTokens
        end   == ProcessLines(lines, 1,
                              [result |-> <<>>, skipCurrentFile |-> FALSE,
                               tokensUsed |-> 0, truncated |-> FALSE],
                              [opts EXCEPT !.MaxTokens = limit])
    IN  IF end.truncated THEN end.result \o << <<>>, TruncationNote >>
        ELSE end.result

\* The files of the diffs: path and the lines git diff prints for it.
FilePaths ==
    { <<"l", "o", "g", "o", ".", "p", "n", "g">>,
      <<"i", "m", "g", "/", "L", "O", "G", "O", ".", "P", "N", "G">>,
      <<"b", "u", "n", "d", "l", "e", ".", "m", "i", "n", ".", "j", "s">>,
      <<"g", "o", ".", "s", "u", "m">>,
      <<"d", "a", "t", "a", ".", "b", "i", "n">>,
      <<"m", "a", "i", "n", ".", "g", "o">> }

FileBlocks ==
    { << <<"d", "i", "f", "f", " ", "-", "-", "g", "i", "t", " ", "a", "/", "l", "o", "g", "o", ".", "p", "n", "g", " ", "b", "/", "l", "o", "g", "o", ".", "p", "n", "g">>,
         <<"B", "i", "n", "a", "r", "y", " ", "f", "i", "l", "e", "s", " ", "a", "/", "l", "o", "g", "o", ".", "p", "n", "g", " ", "a", "n", "d", " ", "b", "/", "l", "o", "g", "o", ".", "p", "n", "g", " ", "d", "i", "f", "f", "e", "r">> >>,
      << <<"d", "i", "f", "f", " ", "-", "-", "g", "i", "t", " ", "a", "/", "i", "m", "g", "/", "L", "O", "G", "O", ".", "P", "N", "G", " ", "b", "/", "i", "m", "g", "/", "L", "O", "G", "O", ".", "P", "N", "G">>,
         <<"n", "e", "w", " ", "f", "i", "l", "e", " ", "m", "o", "d", "e", " ", "1", "0", "0", "6", "4", "4">>,
         <<"B", "i", "n", "a", "r", "y", " ", "f", "i", "l", "e", "s", " ", "/", "d", "e", "v", "/", "n", "u", "l", "l", " ", "a", "n", "d", " ", "b", "/", "i", "m", "g", "/", "L", "O", "G", "O", ".", "P", "N", "G", " ", "d", "i", "f", "f", "e", "r">> >>,
      << <<"d", "i", "f", "f", " ", "-", "-", "g", "i", "t", " ", "a", "/", "b", "u", "n", "d", "l", "e", ".", "m", "i", "n", ".", "j", "s", " ", "b", "/", "b", "u", "n", "d", "l", "e", ".", "m", "i", "n", ".", "j", "s">>,
         <<"+", "v", "a", "r", " ", "a", "=", "f", "u", "n", "c", "t", "i", "o", "n", "(", ")", "{", "r", "e", "t", "u", "r", "n", " ", "1", "}", ";">> >>,
      << <<"d", "i", "f", "f", " ", "-", "-", "g", "i", "t", " ", "a", "/", "g", "o", ".", "s", "u", "m", " ", "b", "/", "g", "o", ".", "s", "u", "m">>,
         <<"+", "h", "1", ":", "a", "b", "c", "=">> >>,
      << <<"d", "i", "f", "f", " ", "-", "-", "g", "i", "t", " ", "a", "/", "d", "a", "t", "a", ".", "b", "i", "n", " ", "b", "/", "d", "a", "t", "a", ".", "b", "i", "n">>,
         <<"B", "i", "n", "a", "r", "y", " ", "f", "i", "l", "e", "s", " ", "a", "/", "d", "a", "t", "a", ".", "b", "i", "n", " ", "a", "n", "d", " ", "b", "/", "d", "a", "t", "a", ".", "b", "i", "n", " ", "d", "i", "f", "f", "e", "r">> >>,
      << <<"d", "i", "f", "f", " ", "-", "-", "g", "i", "t", " ", "a", "/", "m", "a", "i", "n", ".", "g", "o", " ", "b", "/", "m", "a", "i", "n", ".", "g", "o">>,
         <<"@", "@", " ", "-", "1", ",", "2", " ", "+", "1", ",", "3", " ", "@", "@">>,
         <<"+", "f", "u", "n", "c", " ", "h", "e", "l", "l", "o", "(", ")", " ", "{">>,
         <<"+", "}">> >> }

RECURSIVE Flatten(_)
Flatten(ss) == IF ss = <<>> THEN <<>> ELSE Head(ss) \o Flatten(Tail(ss))

FilterOptions ==
    [MaxTokens : {0, SmallLimit}, FilterBinary : BOOLEAN,
     FilterMinified : BOOLEAN, FilterGenerated : BOOLEAN]

InitFilter ==
    /\ mode = "filter"
    /\ IdleParse /\ IdleReview /\ IdleRepo /\ IdleCheck /\ IdleSplit /\ IdleRecord
    /\ \E n \in 1..MaxFiles : \E bs \in [1..n -> FileBlocks] :
       \E opts \in FilterOptions :
          filt = [pc |-> "call", diff |-> Flatten(bs), opts |-> opts,
                  result |-> <<>>]

ProcessDiff ==
    /\ mode = "filter" /\ filt.pc = "call"
    /\ filt' = [filt EXCEPT !.pc = "returned",
                            !.result = Process(filt.diff, filt.opts)]
    /\ UNCHANGED <<mode, parseVars, reviewVars, repoVars, chk, diff, split, undoFile>>

NextFilter == ProcessDiff

SpecFilter == InitFilter /\ [][NextFilter]_vars

(***************************************************************************)
(* From the staged diff to the fixup calls: runAbsorb's step 3             *)
(* (SplitDiffIntoHunks), step 6 (the oracle's document over those hunks,   *)
(* through parseAbsorbResponse) and step 10 (the hunks handed to           *)
(* ApplyHunksAsFixup, target by target), under --yes.  Here attempts lists *)
(* the ApplyHunksAsFixup calls with their hunks.                           *)
(***************************************************************************)
AssignVerdicts ==
    { [CommitSHA |-> Sha(1, 1), Confidence |-> 9, Reasoning |-> "r1",
       Alternatives |-> <<>>],
      [CommitSHA |-> Sha(2, 2), Confidence |-> 8, Reasoning |-> "r2",
       Alternatives |-> <<>>] }

\* The documents the oracle may give for n hunks.
AssignDocs(n) ==
    [Assignments : SeqsUpTo({ [HunkIndex |-> h, CommitSHA |-> v.CommitSHA,
                               Confidence |-> v.Confidence,
                               Reasoning |-> v.Reasoning,
                               Alternatives |-> v.Alternatives] :
                              h \in 0..(n - 1), v \in AssignVerdicts }, MaxAssign),
     UnmatchedHunks : {<<>>}]

InitAssign ==
    /\ mode = "assign"
    /\ IdleReview /\ IdleRepo /\ IdleCheck /\ IdleFilter /\ IdleRecord
    /\ req = <<>> /\ jsonResp = <<>> /\ parseOut = NoOutput
    /\ \E rest \in SeqsUpTo(BodyLines \cup OtherLines, MaxBody) :
          diff = FileHeaderLines \o <<HunkHeaderA>> \o rest
    /\ split = [done |-> FALSE, err |-> FALSE, hunks |-> <<>>]

\* Step 3.
AssignSplit ==
    /\ mode = "assign" /\ ~split.done
    /\ \E out \in {SplitDiffIntoHunks(diff)} :
          split' = [done |-> TRUE, err |-> out.err, hunks |-> out.hunks]
    /\ UNCHANGED <<mode, parseVars, reviewVars, repoVars, chk, diff, filt, undoFile>>

\* Step 6, with the default strategy and threshold.
AssignAnalyze ==
    /\ mode = "assign" /\ split.done /\ ~split.err /\ Len(split.hunks) > 0
    /\ parseOut.status = "none"
    /\ req' = [Hunks |-> split.hunks, Commits |-> Commits,
               Strategy |-> "interactive",
               ConfidenceThreshold |-> DefaultThreshold]
    /\ \E doc \in AssignDocs(Len(split.hunks)) :
          /\ jsonResp' = doc
          /\ parseOut' = parseAbsorbResponse(req', doc)
    /\ UNCHANGED <<mode, reviewVars, repoVars, auxVars>>

\* Step 10: one call of ApplyHunksAsFixup per target of commitHunks.
AssignApply ==
    /\ mode = "assign" /\ parseOut.status = "ok"
    /\ \E sha \in PlanTargets(parseOut) \ {attempts[k].target : k \in 1..Len(attempts)} :
          attempts' = Append(attempts, [target |-> sha,
                                        hunks |-> CommitHunks(parseOut, sha)])
    /\ UNCHANGED <<mode, parseVars, reviewVars, auxVars, repo, plan, cfg, run,
                   injected, clock>>

NextAssign == AssignSplit \/ AssignAnalyze \/ AssignApply

SpecAssign == InitAssign /\ [][NextAssign]_vars

(***************************************************************************)
(* The undo record on disk: SaveAbsorbState and LoadAbsorbState.  A string *)
(* is a sequence of pieces; a piece is a text of n bytes that holds none   *)
(* of the bytes the code looks for, or one such byte ("=", line feed,      *)
(* carriage return, a digit, a sign).                                      *)
(***************************************************************************)
MaxOps == 2
MaxForeign == 1

\* bufio.MaxScanTokenSize, the buffer limit of the bufio.Scanner that
\* LoadAbsorbState reads the file with.
MaxScanTokenSize == 65536

Ch(c) == [t |-> c, n |-> 1]

Word(w, n) == [t |-> w, n |-> n]

EQ == Ch("=")

LF == Ch("LF")

CR == Ch("CR")

\* A run of MaxScanTokenSize letters.
LongRun == Word("xx..x", MaxScanTokenSize)

RECURSIVE StrLen(_)
StrLen(s) == IF s = <<>> THEN 0 ELSE s[1].n + StrLen(Tail(s))

\* strings.Index for a one-byte separator: 0 when absent.
IndexOfPiece(s, p) ==
    IF \E k \in 1..Len(s) : s[k] = p
    THEN CHOOSE k \in 1..Len(s) : s[k] = p /\ \A j \in 1..(k - 1) : s[j] # p
    ELSE 0

\* fmt's %d of a non-negative number, and of an int64.
RECURSIVE FormatNat(_)
FormatNat(n) ==
    IF n < 10 THEN <<Ch(Digits[n + 1])>>
    ELSE Append(FormatNat(n \div 10), Ch(Digits[(n % 10) + 1]))

FormatInt(n) == IF n < 0 THEN <<Ch("-")>> \o FormatNat(0 - n) ELSE FormatNat(n)

\* The bytes of a string whose pieces are single bytes.
Bytes(s) == [k \in 1..Len(s) |-> s[k].t]

\* fmt.Sscanf(value, "%d", &state.Timestamp): the result is dropped, so
\* without a number the field keeps its value.
SscanfInt(value, old) ==
    LET r == Sscanf(Bytes(value))
    IN  IF r.ok THEN r.val ELSE old

\* fmt.Fprintf(file, "<key>=%s\n", value)
RecordLine(key, value) == <<key, EQ>> \o value \o <<LF>>

KeyOriginalHead == Word("original_head", 13)

KeyBackupRef == Word("backup_ref", 10)

KeyCurrentBranch == Word("current_branch", 14)

KeyTimestamp == Word("timestamp", 9)

KeyStashSHA == Word("stash_sha", 9)

KeyOperation == Word("operation", 9)

KeyBackupBranch == Word("backup_branch", 13)

RECURSIVE OperationLines(_)
OperationLines(ops) ==
    IF ops = <<>> THEN <<>>
    ELSE RecordLine(KeyOperation, ops[1]) \o OperationLines(Tail(ops))

\* SaveAbsorbState: the bytes written to .git/cmt/absorb-undo.
SaveAbsorbState(state) ==
    RecordLine(KeyOriginalHead, state.OriginalHEAD)
      \o RecordLine(KeyBackupRef, state.BackupRef)
      \o RecordLine(KeyCurrentBranch, state.CurrentBranch)
      \o RecordLine(KeyTimestamp, FormatInt(state.Timestamp))
      \o (IF state.StashSHA # <<>> THEN RecordLine(KeyStashSHA, state.StashSHA)
          ELSE <<>>)
      \o OperationLines(state.Operations)

\* bufio.ScanLines drops one trailing carriage return of a line.
dropCR(line) ==
    IF line # <<>> /\ line[Len(line)] = CR
    THEN SubSeq(line, 1, Len(line) - 1) ELSE line

\* bufio.Scanner with ScanLines: the lines of the data, or ErrTooLong when
\* the buffer, grown to MaxScanTokenSize, is full and holds no line end.
RECURSIVE ScanRecord(_)
ScanRecord(data) ==
    IF data = <<>> THEN [lines |-> <<>>, err |-> FALSE]
    ELSE LET k    == IndexOfPiece(data, LF)
             line == IF k = 0 THEN data ELSE SubSeq(data, 1, k - 1)
             rest == IF k = 0 THEN <<>> ELSE SubSeq(data, k + 1, Len(data))
         IN  IF StrLen(line) >= MaxScanTokenSize
             THEN [lines |-> <<>>, err |-> TRUE]
             ELSE LET more == ScanRecord(rest)
                  IN  [lines |-> <<dropCR(line)>> \o more.lines,
                       err   |-> more.err]

ZeroState ==
    [OriginalHEAD |-> <<>>, BackupRef |-> <<>>, CurrentBranch |-> <<>>,
     Timestamp |-> 0, StashSHA |-> <<>>, Operations |-> <<>>]

\* LoadLine with strings.Split in place of strings.SplitN(line, "=", 2): a
\* line with a second "=" has three parts and is skipped.
LoadLineMutant(state, line) ==
    LET k     == IndexOfPiece(line, EQ)
        key   == SubSeq(line, 1, k - 1)
        value == SubSeq(line, k + 1, Len(line))
    IN  IF k = 0 \/ IndexOfPiece(value, EQ) # 0 THEN state
        ELSE IF key = <<KeyOriginalHead>> THEN [state EXCEPT !.OriginalHEAD = value]
        ELSE IF key = <<KeyBackupRef>> THEN [state EXCEPT !.BackupRef = value]
        ELSE IF key = <<KeyCurrentBranch>> THEN [state EXCEPT !.CurrentBranch = value]
        ELSE IF key = <<KeyTimestamp>>
             THEN [state EXCEPT !.Timestamp = SscanfInt(value, @)]
        ELSE IF key = <<KeyStashSHA>> THEN [state EXCEPT !.StashSHA = value]
        ELSE IF key = <<KeyOperation>>
             THEN [state EXCEPT !.Operations = Append(@, value)]
        ELSE state

\* LoadAbsorbState, the body of the loop over the lines.
LoadLine(state, line) ==
    LET k     == IndexOfPiece(line, EQ)
        key   == SubSeq(line, 1, k - 1)
        value == SubSeq(line, k + 1, Len(line))
    IN  IF k = 0 THEN state
        ELSE IF key = <<KeyOriginalHead>> THEN [state EXCEPT !.OriginalHEAD = value]
        ELSE IF key = <<KeyBackupRef>> THEN [state EXCEPT !.BackupRef = value]
        ELSE IF key = <<KeyCurrentBranch>> THEN [state EXCEPT !.CurrentBranch = value]
        ELSE IF key = <<KeyTimestamp>>
             THEN [state EXCEPT !.Timestamp = SscanfInt(value, @)]
        ELSE IF key = <<KeyStashSHA>> THEN [state EXCEPT !.StashSHA = value]
        ELSE IF key = <<KeyOperation>>
             THEN [state EXCEPT !.Operations = Append(@, value)]
        ELSE state

RECURSIVE LoadLines(_, _)
LoadLines(state, lines) ==
    IF lines = <<>> THEN state
    ELSE LoadLines(LoadLine(state, lines[1]), Tail(lines))

\* LoadAbsorbState on an existing file: the state, or the scanner's error.
LoadAbsorbState(file) ==
    LET sc == CHOOSE r \in {ScanRecord(file)} : TRUE
    IN  IF sc.err THEN [err |-> TRUE, state |-> <<>>]
        ELSE [err |-> FALSE, state |-> <<LoadLines(ZeroState, sc.lines)>>]

\* Field values: plain, empty, with "=", very long, with a line feed, with a
\* trailing carriage return.
PlainText == <<Ch("a")>>

RefTexts == {PlainText, <<Ch("a"), EQ, Ch("b")>>}

BranchTexts == {PlainText, <<Ch("a"), LF, Ch("b")>>, <<Ch("a"), CR>>}

OperationTexts == {PlainText, <<>>, <<LongRun>>}

Timestamps == {12, 0 - 3}

AbsorbStates ==
    [OriginalHEAD : {PlainText}, BackupRef : RefTexts,
     CurrentBranch : BranchTexts, Timestamp : Timestamps,
     StashSHA : {<<>>, PlainText},
     Operations : SeqsUpTo(OperationTexts, MaxOps)]

\* Lines of other writers: an unknown key, the obsolete backup_branch key.
ForeignLines ==
    { <<Word("future_key", 10), EQ, Ch("a"), LF>>,
      <<KeyBackupBranch, EQ, Ch("a"), LF>> }

\* The positions where a line starts: after k pieces of the file.
LineStarts(file) == {0} \cup {k \in 1..Len(file) : file[k] = LF}

InsertAt(file, k, line) ==
    SubSeq(file, 1, k) \o line \o SubSeq(file, k + 1, Len(file))

InitRecord ==
    /\ mode = "record"
    /\ IdleParse /\ IdleReview /\ IdleRepo /\ IdleCheck /\ IdleSplit /\ IdleFilter
    /\ \E state \in AbsorbStates :
          undoFile = [pc |-> "new", state |-> state, file |-> <<>>,
                      foreign |-> 0, loaded |-> <<>>]

\* SaveAbsorbState(repo, state)
SaveRecord ==
    /\ mode = "record" /\ undoFile.pc = "new"
    /\ undoFile' = [undoFile EXCEPT !.pc = "saved",
                                    !.file = SaveAbsorbState(undoFile.state)]
    /\ UNCHANGED <<mode, parseVars, reviewVars, repoVars, chk, diff, split, filt>>

\* Another version of the program left a line of its own in the file.
AddForeignLine ==
    /\ mode = "record" /\ undoFile.pc = "saved"
    /\ undoFile.foreign < MaxForeign
    /\ \E file \in {InsertAt(undoFile.file, k, line) :
                       k \in LineStarts(undoFile.file), line \in ForeignLines} :
          undoFile' = [undoFile EXCEPT !.file = file, !.foreign = @ + 1]
    /\ UNCHANGED <<mode, parseVars, reviewVars, repoVars, chk, diff, split, filt>>

\* LoadAbsorbState(repo)
LoadRecord ==
    /\ mode = "record" /\ undoFile.pc = "saved"
    /\ undoFile' = [undoFile EXCEPT !.pc = "loaded",
                                    !.loaded = <<LoadAbsorbState(undoFile.file)>>]
    /\ UNCHANGED <<mode, parseVars, reviewVars, repoVars, chk, diff, split, filt>>

NextRecord == SaveRecord \/ AddForeignLine \/ LoadRecord

SpecRecord == InitRecord /\ [][NextRecord]_vars

(***************************************************************************)
(* C1.  Partition invariant: in a response parseAbsorbResponse returns,    *)
(* every hunk index of the request is represented exactly once in total    *)
(* across Assignments and UnmatchedHunks.                                  *)
(***************************************************************************)
AssignedHunkSeq(out) == [j \in 1..Len(out.Assignments) |-> out.Assignments[j].Hunk]

C1_Partition ==
    parseOut.status = "ok" =>
        \A i \in 1..Len(req.Hunks) :
            Occurrences(AssignedHunkSeq(parseOut), req.Hunks[i])
              + Occurrences(parseOut.UnmatchedHunks, req.Hunks[i]) = 1

(***************************************************************************)
(* C8.  Confidence clamp: every Confidence of every assignment and of      *)
(* every alternative of a returned response lies in [0.0, 1.0] (0..10 in   *)
(* tenths).                                                                *)
(***************************************************************************)
InUnitInterval(c) == 0 <= c /\ c <= 10

C8_ConfidenceClamp ==
    parseOut.status = "ok" =>
        \A j \in 1..Len(parseOut.Assignments) :
            /\ InUnitInterval(parseOut.Assignments[j].Confidence)
            /\ \A k \in 1..Len(parseOut.Assignments[j].Alternatives) :
                   InUnitInterval(parseOut.Assignments[j].Alternatives[k].Confidence)

(***************************************************************************)
(* C9.  Best-match demotion: in a returned response, every in-range oracle *)
(* entry whose confidence is below the threshold under "best-match" has    *)
(* its hunk in UnmatchedHunks and yields no assignment; every other        *)
(* in-range entry (at or above the threshold, or under "interactive") is   *)
(* kept, so Assignments is exactly the kept entries, in the oracle's order.*)
(***************************************************************************)
InRange(e) == 0 <= e.HunkIndex /\ e.HunkIndex < Len(req.Hunks)

Demoted(e) ==
    InRange(e) /\ req.Strategy = "best-match"
               /\ e.Confidence < req.ConfidenceThreshold

Kept(e) ==
    InRange(e) /\ (req.Strategy = "interactive"
                   \/ e.Confidence >= req.ConfidenceThreshold)

C9_BestMatchDemotion ==
    parseOut.status = "ok" =>
        LET kept == SelectSeq(jsonResp.Assignments, Kept)
        IN  /\ \A k \in 1..Len(jsonResp.Assignments) :
                   Demoted(jsonResp.Assignments[k]) =>
                       req.Hunks[jsonResp.Assignments[k].HunkIndex + 1]
                           \in Range(parseOut.UnmatchedHunks)
            /\ Len(parseOut.Assignments) = Len(kept)
            /\ \A j \in 1..Len(kept) :
                   /\ parseOut.Assignments[j].Hunk = req.Hunks[kept[j].HunkIndex + 1]
                   /\ parseOut.Assignments[j].Confidence = kept[j].Confidence
                   /\ parseOut.Assignments[j].Reasoning = kept[j].Reasoning

C9_Witness ==
    /\ parseOut.status = "ok"
    /\ req.Strategy = "best-match"
    /\ \E k \in 1..Len(jsonResp.Assignments) : Demoted(jsonResp.Assignments[k])
    /\ \E k \in 1..Len(jsonResp.Assignments) :
           /\ InRange(jsonResp.Assignments[k])
           /\ jsonResp.Assignments[k].Confidence = req.ConfidenceThreshold
    /\ Len(parseOut.Assignments) = 1

(***************************************************************************)
(* C2.  Review-state purity: after exactly one unassign and then accept,   *)
(* with no alternative selected, the response runAbsorb goes on to apply   *)
(* has the original unmatched hunks plus the unassigned hunk, and the      *)
(* original assignments minus that entry, the others unchanged.            *)
(***************************************************************************)
RemoveAt(s, i) == SubSeq(s, 1, i - 1) \o SubSeq(s, i + 1, Len(s))

C2_UnassignThenAccept ==
    (mode = "review" /\ reviewPc = "apply"
       /\ Len(hist.unassigns) = 1 /\ ~hist.selected) =>
        LET i   == hist.unassigns[1].index + 1
            out == RespVal(heap, absorbResp)
        IN  /\ out.UnmatchedHunks =
                   Append(hist.orig.UnmatchedHunks, hist.orig.Assignments[i].Hunk)
            /\ out.Assignments = RemoveAt(hist.orig.Assignments, i)

(***************************************************************************)
(* C3.  End-to-end scenario: hunk 0 on the existing file a.txt assigned to *)
(* C1, hunk 1 on the new file b.txt assigned to C2, nothing unmatched.     *)
(* Once step 10 is over (no git command failing for an outside reason)     *)
(* there are exactly two fixup commits, one for C1 and one for C2, and     *)
(* nothing is staged.                                                      *)
(***************************************************************************)
ScenarioPlan ==
    [Assignments |->
        << [Hunk |-> [id |-> 0, FilePath |-> "a.txt", IsNew |-> FALSE],
            CommitSHA |-> Sha(1, 1)],
           [Hunk |-> [id |-> 1, FilePath |-> "b.txt", IsNew |-> TRUE],
            CommitSHA |-> Sha(2, 2)] >>,
     UnmatchedHunks |-> <<>>]

FixupTargets(r) ==
    [k \in 1..Len(r.head) |-> r.head[k].target]

C3_TwoFixups ==
    (mode = "absorb" /\ plan = ScenarioPlan /\ ~injected
       /\ run.pc \in {"backup", "failed"}) =>
        /\ Len(repo.head) = 2
        /\ \A k \in 1..2 : repo.head[k].kind = "fixup"
        /\ Range(FixupTargets(repo)) = {Sha(1, 1), Sha(2, 2)}
        /\ repo.index = {}

(***************************************************************************)
(* C4.  When ApplyHunksAsFixup fails for one target, it is still attempted *)
(* for every other distinct target: when runAbsorb is past step 10, every  *)
(* target of the plan has been attempted.                                  *)
(***************************************************************************)
AttemptedTargets == {attempts[k].target : k \in 1..Len(attempts)}

C4_AllTargetsAttempted ==
    (mode = "absorb" /\ run.pc # "apply" /\ Len(attempts) > 0) => AttemptedTargets = PlanTargets(plan)

(***************************************************************************)
(* C5.  On every return path of CheckRebaseConflicts after the temporary   *)
(* branch has been created (replays succeed, a replay fails, the context   *)
(* is cancelled at any point) no rebase is in progress, the temporary      *)
(* branch is gone and the branch checked out before the call is active.    *)
(***************************************************************************)
C5_CleanupOnEveryPath ==
    (mode = "check" /\ chk.pc = "returned" /\ chk.tempCreated) =>
        /\ ~chk.rebasing
        /\ TempBranch \notin chk.branches
        /\ chk.branch = chk.currentBranch

(***************************************************************************)
(* C6.  In UndoAbsorb, once the checkout of the recorded branch and the    *)
(* reset to the backup ref have succeeded, a failing stash pop or a        *)
(* failing ref deletion stops nothing: the deletion of the backup ref has  *)
(* been attempted, the state record is gone and UndoAbsorb returned nil.   *)
(***************************************************************************)
Logged(name, ok) == \E k \in 1..Len(run.log) : run.log[k] = [step |-> name, ok |-> ok]

Attempted(name) == Logged(name, TRUE) \/ Logged(name, FALSE)

C6_UndoBestEffort ==
    (mode = "undo" /\ run.cmd = "undo" /\ Logged("reset", TRUE)) =>
        /\ Attempted("delete")
        /\ repo.stateFile = <<>>
        /\ ~run.err

C6_Witness ==
    /\ mode = "undo" /\ run.cmd = "undo"
    /\ Logged("reset", TRUE)
    /\ Logged("stash", FALSE) /\ Logged("delete", FALSE)
    /\ repo.stateFile = <<>> /\ ~run.err

(***************************************************************************)
(* C7.  After runCleanupBackups completes (no git command failing for an   *)
(* outside reason), the backup ref named by the active state record still  *)
(* exists and no other ref under refs/cmt-backup/ exists.                  *)
(***************************************************************************)
BackupRefNames == {x.name : x \in repo.refs}

ActiveBackupRefs ==
    IF repo.stateFile = <<>> THEN {} ELSE {repo.stateFile[1].BackupRef}

C7_BackupExclusivity ==
    (mode = "undo" /\ run.cmd = "cleanup" /\ ~run.err /\ ~injected) =>
        BackupRefNames = ActiveBackupRefs

(***************************************************************************)
(* C10.  For every hunk SplitDiffIntoHunks returns, ContextBefore, then    *)
(* RemovedLines, then AddedLines, then ContextAfter, each line under its   *)
(* marker, is exactly the hunk's body (Lines).  The statement as claimed   *)
(* is C10_RoundTripAnyHunk; C10_RoundTripShaped restricts it to bodies     *)
(* made of context lines, removed lines, added lines and context lines in  *)
(* that order and of nothing else.                                         *)
(***************************************************************************)
Marked(marker, ls) == [k \in 1..Len(ls) |-> <<marker>> \o ls[k]]

Rebuild(h) ==
    Marked(" ", h.ContextBefore) \o Marked("-", h.RemovedLines)
        \o Marked("+", h.AddedLines) \o Marked(" ", h.ContextAfter)

IsContextLine(l) == l # <<>> /\ l[1] = " "

IsRemovedLine(l) == l # <<>> /\ l[1] = "-" /\ ~(Len(l) >= 3 /\ l[2] = "-" /\ l[3] = "-")

IsAddedLine(l) == l # <<>> /\ l[1] = "+" /\ ~(Len(l) >= 3 /\ l[2] = "+" /\ l[3] = "+")

Shaped(body) ==
    \E i, j, k \in 0..Len(body) :
        /\ i <= j /\ j <= k
        /\ \A n \in 1..Len(body) :
              /\ (n <= i) => IsContextLine(body[n])
              /\ (i < n /\ n <= j) => IsRemovedLine(body[n])
              /\ (j < n /\ n <= k) => IsAddedLine(body[n])
              /\ (k < n) => IsContextLine(body[n])

SplitHunks == {split.hunks[k] : k \in 1..Len(split.hunks)}

C10_RoundTripAnyHunk ==
    (mode = "split" /\ split.done) =>
        \A h \in SplitHunks : Rebuild(h) = h.Lines

C10_RoundTripShaped ==
    (mode = "split" /\ split.done) =>
        \A h \in SplitHunks : Shaped(h.Lines) => Rebuild(h) = h.Lines

C10_Witness ==
    /\ mode = "split" /\ split.done
    /\ \E h \in SplitHunks :
          /\ Shaped(h.Lines) /\ Rebuild(h) = h.Lines
          /\ h.RemovedLines # <<>> /\ h.AddedLines # <<>> /\ h.ContextAfter # <<>>

(***************************************************************************)
(* C18.  Review operations (unassign, selectAlternative, navigation) never *)
(* change the AbsorbResponse the caller passed to ShowAbsorbReview and     *)
(* still holds: its Assignments and UnmatchedHunks read the same at every  *)
(* point of the review as before it.                                       *)
(***************************************************************************)
C18_CallerResponseUntouched ==
    (mode = "review") => RespVal(heap, callerResp) = hist.orig

(***************************************************************************)
(* C19.  When step 10 has created the fixup commits for all targets (no    *)
(* git command failing for an outside reason), every unmatched hunk is     *)
(* still staged and none is contained in a fixup commit.                   *)
(***************************************************************************)
UnmatchedOfPlan == Range(plan.UnmatchedHunks)

C19_UnmatchedStayStaged ==
    (mode = "absorb" /\ run.pc = "backup" /\ Len(attempts) > 0 /\ ~injected) =>
        /\ UnmatchedOfPlan \subseteq repo.index
        /\ UnmatchedOfPlan \cap HeadHunks(repo) = {}

(***************************************************************************)
(* C14.  Every runAbsorb execution that created at least one fixup commit  *)
(* ends, with success or with an error, with a persisted state record      *)
(* whose backup_ref names the backup ref this execution created.           *)
(***************************************************************************)
C14_RecordAfterFixups ==
    (mode = "absorb" /\ run.pc \in {"done", "failed"} /\ CreatedFixup) =>
        /\ run.backupRef # <<>>
        /\ repo.stateFile # <<>>
        /\ repo.stateFile[1].BackupRef = run.backupRef

(***************************************************************************)
(* C11.  When the review ends with cancel, GetResult yields (false, nil)   *)
(* and runAbsorb returns with no fixup commit, no backup ref, no state     *)
(* record and no rebase: the repository is as it was when the review       *)
(* opened.                                                                 *)
(***************************************************************************)
StageRan(name) == \E k \in 1..Len(run.stages) : run.stages[k] = name

ReviewCancelled == StageRan("review") /\ run.review.last = "cancel"

C11_CancelLeavesRepository ==
    (mode = "absorb" /\ ReviewCancelled) =>
        /\ ~run.review.accepted
        /\ run.review.resp = <<>>
        /\ run.pc = "returned"
        /\ attempts = <<>>
        /\ repo = run.atReview[1]
        /\ repo.head = <<>> /\ repo.refs = {} /\ repo.stateFile = <<>>

C11_Witness ==
    /\ mode = "absorb" /\ ReviewCancelled
    /\ run.pc = "returned" /\ Len(plan.Assignments) > 0 /\ repo.index # {}

(***************************************************************************)
(* C12.  When the oracle call fails, times out, returns empty output, or   *)
(* returns output failing both the strict and the recovery parse,          *)
(* AnalyzeHunkAssignment returns an error with a nil response, and         *)
(* runAbsorb returns without any fixup commit, backup ref or state record. *)
(***************************************************************************)
OracleFailed == run.oracle # <<>> /\ run.oracle[1].err

C12_OracleFailureIsWhole ==
    (mode = "absorb" /\ OracleFailed) =>
        /\ run.oracle[1].resp = <<>>
        /\ run.pc = "failed"
        /\ attempts = <<>>
        /\ repo.head = <<>> /\ repo.refs = {} /\ repo.stateFile = <<>>

C12_Witness ==
    /\ mode = "absorb" /\ OracleFailed
    /\ run.oracle[1].why = "recovery" /\ run.pc = "failed"

(***************************************************************************)
(* C13.  As stated: in every run that reaches fixup application the stages *)
(* ran in the order parse, oracle analysis, review, conflict prediction.   *)
(* As the code has it: the order is parse, conflict prediction, oracle     *)
(* analysis, review (when it runs), and conflict prediction has run before *)
(* the first fixup is attempted.                                           *)
(***************************************************************************)
ReachedApply == run.pc = "apply" \/ attempts # <<>>

C16_DryRunChangesNothing ==
    (mode = "absorb" /\ cfg.dryRun) =>
        /\ ~StageRan("conflict") /\ ~StageRan("review")
        /\ attempts = <<>>
        /\ repo = run.entry
        /\ run.pc \in {"start", "range", "parse", "conflict", "provider",
                       "oracle", "review", "dryrun", "returned", "failed"}

C16_Witness ==
    /\ mode = "absorb" /\ cfg.dryRun /\ ~cfg.yes
    /\ run.pc = "returned" /\ StageRan("oracle") /\ Len(plan.Assignments) > 0

(***************************************************************************)
(* C15.  After any sequence of absorb runs and undos at most one state     *)
(* record exists; an undo that got past the reset has removed it; an undo  *)
(* that found no record returned the error without running a checkout,     *)
(* reset, stash or ref-deletion command.                                   *)
(***************************************************************************)
ResetDone(u) == \E k \in 1..Len(u.log) : u.log[k] = Step("reset", FALSE)

JustUndone == mode = "absorb" /\ run.pc = "undone"

C15_OneRecordUndoRemovesIt ==
    /\ Len(repo.stateFile) <= 1
    /\ JustUndone =>
          /\ ResetDone(run.undo[1]) => repo.stateFile = <<>>
          /\ run.undo[1].before.stateFile = <<>> =>
                /\ run.undo[1].err
                /\ run.undo[1].log = <<>>
                /\ repo = run.undo[1].before

C15_Witness ==
    /\ JustUndone /\ ResetDone(run.undo[1])
    /\ run.execs = MaxRuns /\ repo.refs # {}

(***************************************************************************)
(* C20.  Whenever an undo resets the branch, the backup ref it resets to   *)
(* was created by the most recent execution of runAbsorb that created      *)
(* fixup commits, never by an earlier one.                                 *)
(***************************************************************************)
C20_UndoTargetsLatestRun ==
    (JustUndone /\ ResetDone(run.undo[1]) /\ run.lastFixup # <<>>) =>
        run.lastFixup = << run.undo[1].before.stateFile[1].BackupRef >>

(***************************************************************************)
(* C17.  The text Process returns contains nothing of a filtered file      *)
(* (binary by extension, minified, generated or lock file): none of its    *)
(* lines, and not its name, not even in the "diff --git" header.           *)
(***************************************************************************)
FilteredPaths ==
    {p \in FilePaths :
        /\ shouldSkipFile(p, filt.opts)
        /\ \E k \in 1..Len(filt.diff) :
              /\ HasPrefix(filt.diff[k], DiffGitPrefix)
              /\ extractFilePath(filt.diff[k]) = p}

C17_FilteredFileLeavesNoTrace ==
    (mode = "filter" /\ filt.pc = "returned") =>
        \A p \in FilteredPaths :
            \A k \in 1..Len(filt.result) : ~Contains(filt.result[k], p)

(***************************************************************************)
(* C21.  For an oracle entry or alternative whose commit id matches no     *)
(* candidate commit (ids shorter than the abbreviation length and the      *)
(* empty id included), parseAbsorbResponse completes normally and yields   *)
(* the entry with the id as the oracle gave it and an empty message.       *)
(***************************************************************************)
WholePrefixOf(id) == {k \in 1..Len(req.Commits) : HasPrefix(req.Commits[k].SHA, id)}

Unresolvable(id) == Len(id) < ShaPrefixLen \/ WholePrefixOf(id) = {}

KeptAsGiven(given, got) ==
    Unresolvable(given.CommitSHA) =>
        got.CommitSHA = given.CommitSHA /\ got.CommitMessage = ""

C21_UnresolvableKeptAsGiven ==
    (mode = "parse" /\ parseOut.status # "none") =>
        /\ parseOut.status = "ok"
        /\ LET kept == SelectSeq(jsonResp.Assignments, Kept)
           IN  \A j \in 1..Len(kept) :
                  /\ KeptAsGiven(kept[j], parseOut.Assignments[j])
                  /\ \A a \in 1..Len(kept[j].Alternatives) :
                        KeptAsGiven(kept[j].Alternatives[a],
                                    parseOut.Assignments[j].Alternatives[a])

(***************************************************************************)
(* C22.  parseAbsorbResponse replaces an oracle commit id by the full id   *)
(* of a candidate exactly when the whole oracle id is a prefix of that     *)
(* candidate's id (the first such candidate), and then sets the message to *)
(* the first line of that commit's message; an id that is a prefix of no   *)
(* candidate's id is never replaced.                                       *)
(***************************************************************************)
FirstWholePrefix(id) ==
    CHOOSE k \in WholePrefixOf(id) : \A o \in WholePrefixOf(id) : k <= o

ResolvedByWholeId(given, got) ==
    IF WholePrefixOf(given.CommitSHA) # {}
    THEN /\ got.CommitSHA = req.Commits[FirstWholePrefix(given.CommitSHA)].SHA
         /\ got.CommitMessage =
               FirstLine(req.Commits[FirstWholePrefix(given.CommitSHA)].Message)
    ELSE got.CommitSHA = given.CommitSHA

C22_ResolvedByWholeId ==
    (mode = "parse" /\ parseOut.status = "ok") =>
        LET kept == SelectSeq(jsonResp.Assignments, Kept)
        IN  \A j \in 1..Len(kept) :
               /\ ResolvedByWholeId(kept[j], parseOut.Assignments[j])
               /\ \A a \in 1..Len(kept[j].Alternatives) :
                     ResolvedByWholeId(kept[j].Alternatives[a],
                                       parseOut.Assignments[j].Alternatives[a])

(***************************************************************************)
(* C23.  No HunkAssignment of a response the oracle client returned, and   *)
(* no hunk passed to ApplyHunksAsFixup, is a hunk with zero added lines    *)
(* and zero removed lines.                                                 *)
(***************************************************************************)
NoChange(h) == h.AddedLines = <<>> /\ h.RemovedLines = <<>>

C23_NoEmptyHunkAssigned ==
    (mode = "assign") =>
        /\ \A j \in 1..Len(parseOut.Assignments) :
               ~NoChange(parseOut.Assignments[j].Hunk)
        /\ \A k \in 1..Len(attempts) :
               \A j \in 1..Len(attempts[k].hunks) : ~NoChange(attempts[k].hunks[j])


(***************************************************************************)
(* C24.  The review cursor.  At every point of the review the cursor       *)
(* satisfies 0 <= currentIndex < len(assignments) when there are           *)
(* assignments and currentIndex = 0 when there are none.  The next key at  *)
(* the last index and the previous key at index 0 change nothing; the      *)
(* unassign key on the last entry moves the cursor to the previous index   *)
(* (to 0 when that entry was the only one), and on any other entry keeps   *)
(* the cursor index.                                                       *)
(***************************************************************************)
CursorInBounds ==
    IF m.assignments.len = 0
    THEN m.currentIndex = 0
    ELSE 0 <= m.currentIndex /\ m.currentIndex < m.assignments.len

CursorAfterUnassign(i, n) ==
    IF i = n - 1 THEN (IF i > 0 THEN i - 1 ELSE 0) ELSE i

\* A step of the review is an unassign when it records one; a step that
\* moves the cursor up is the next key, one that moves it down without an
\* unassign is the previous key.  The keys at the ends are the steps that
\* never occur: no step moves the cursor from the last index up or from 0
\* down.
IsUnassign == Len(hist'.unassigns) = Len(hist.unassigns) + 1

CursorStep ==
    /\ IsUnassign =>
           /\ m'.assignments.len = m.assignments.len - 1
           /\ m'.currentIndex =
                  CursorAfterUnassign(m.currentIndex, m.assignments.len)
    /\ (~IsUnassign /\ m'.currentIndex # m.currentIndex) =>
           /\ m'.assignments = m.assignments
           /\ \/ /\ m'.currentIndex = m.currentIndex + 1
                 /\ m.currentIndex < m.assignments.len - 1
              \/ /\ m'.currentIndex = m.currentIndex - 1
                 /\ m.currentIndex > 0

C24_CursorWithinBounds ==
    /\ []((mode = "review") => CursorInBounds)
    /\ [][(mode = "review") => CursorStep]_vars

\* The last of two entries was unassigned and the cursor moved back to 0.
C24_Witness ==
    /\ mode = "review"
    /\ Len(hist.unassigns) = 1
    /\ hist.unassigns[1].index = 1
    /\ m.assignments.len = 1
    /\ m.currentIndex = 0


(***************************************************************************)
(* C25.  Confirming an alternative.  The enter key in alternatives mode    *)
(* with selectedAlt = i, 1 <= i <= number of alternatives, sets the        *)
(* current assignment's CommitSHA, CommitMessage, Confidence and Reasoning *)
(* to those of alternative i-1, records the current index in the           *)
(* modifications, and returns to review mode; with i = 0 it changes no     *)
(* assignment and records nothing.  Either way the assignment's hunk and   *)
(* alternatives, every other assignment, the unmatched list and the cursor *)
(* stay as they were.                                                      *)
(***************************************************************************)
ConfirmStep ==
    LET i      == m.selectedAlt
        cur    == m.currentIndex + 1
        before == SliceVal(heap, m.assignments)
        after  == SliceVal(heap', m'.assignments)
        alts   == before[cur].Alternatives
    IN  /\ m'.mode = "review"
        /\ m'.currentIndex = m.currentIndex
        /\ SliceVal(heap', m'.unmatched) = SliceVal(heap, m.unmatched)
        /\ Len(after) = Len(before)
        /\ \A j \in 1..Len(before) : j # cur => after[j] = before[j]
        /\ after[cur].Hunk = before[cur].Hunk
        /\ after[cur].Alternatives = alts
        /\ IF 1 <= i /\ i <= Len(alts)
           THEN /\ after[cur].CommitSHA = alts[i].CommitSHA
                /\ after[cur].CommitMessage = alts[i].CommitMessage
                /\ after[cur].Confidence = alts[i].Confidence
                /\ after[cur].Reasoning = alts[i].Reasoning
                /\ m.currentIndex \in DOMAIN m'.modifications
                /\ m'.modifications[m.currentIndex] = alts[i].CommitSHA
           ELSE /\ i = 0
                /\ after = before
                /\ m'.modifications = m.modifications

C25_ConfirmAlternative ==
    [][(mode = "review" /\ m.mode = "alternatives" /\ AltEnter) => ConfirmStep]_vars

\* The second alternative of an entry was confirmed.
C25_Witness ==
    /\ mode = "review" /\ m.mode = "review" /\ hist.selected
    /\ \E k \in DOMAIN m.modifications :
          /\ m.modifications[k] = Sha(1, 3)
          /\ heap[m.assignments.arr][k + 1].CommitMessage = "tweak a"

(***************************************************************************)
(* C26.  Alternatives mode.  The model enters alternatives mode only from  *)
(* review mode, only when the current assignment has at least one          *)
(* alternative, and with selectedAlt reset to 0.  While the mode lasts,    *)
(* 0 <= selectedAlt <= number of alternatives of the current assignment,   *)
(* and no step accepts, cancels, moves the cursor or unassigns: only       *)
(* selectedAlt changes until the mode is left.                             *)
(***************************************************************************)
InAlternatives == mode = "review" /\ m.mode = "alternatives"

AltCursorInBounds ==
    /\ m.currentIndex < m.assignments.len
    /\ Len(CurrentAssignment.Alternatives) >= 1
    /\ 0 <= m.selectedAlt
    /\ m.selectedAlt <= Len(CurrentAssignment.Alternatives)

AlternativesStep ==
    /\ (m.mode # "alternatives" /\ m'.mode = "alternatives") =>
           /\ m.mode = "review"
           /\ m.currentIndex < m.assignments.len
           /\ Len(CurrentAssignment.Alternatives) >= 1
           /\ m'.selectedAlt = 0
    /\ (m.mode = "alternatives") =>
           /\ m'.accepted = m.accepted
           /\ m'.cancelled = m.cancelled
           /\ m'.currentIndex = m.currentIndex
           /\ m'.assignments = m.assignments
           /\ m'.unmatched = m.unmatched
           /\ reviewPc' = reviewPc
    /\ (m.mode = "alternatives" /\ m'.mode = "alternatives") =>
           /\ [m' EXCEPT !.selectedAlt = 0] = [m EXCEPT !.selectedAlt = 0]
           /\ SliceVal(heap', m'.assignments) = SliceVal(heap, m.assignments)

C26_AlternativesMode ==
    /\ [](InAlternatives => AltCursorInBounds)
    /\ [][(mode = "review") => AlternativesStep]_vars

\* The alternative cursor stands on the last alternative.
C26_Witness ==
    /\ InAlternatives
    /\ m.selectedAlt = Len(CurrentAssignment.Alternatives)
    /\ m.selectedAlt = 2


(***************************************************************************)
(* C27.  ApplyHunksAsFixup and its git failures.  Whenever step 10 is      *)
(* about to apply a target: if git checkout HEAD -- <file> fails for a     *)
(* hunk that is not marked new, or git apply --index fails, the call       *)
(* returns an error and HEAD has no new commit; a failed checkout for a    *)
(* hunk marked new is ignored, the loop over the hunks goes on and the     *)
(* call reaches git apply.                                                 *)
(***************************************************************************)
RestoreFails(r, h, inj) == inj = "checkout" \/ ~FileInHead(r, h.FilePath)

C27_NoCommitAfterFailedRestoreOrApply ==
    (mode = "absorb" /\ run.pc = "apply") =>
        \A sha \in run.pending, inj \in Injections \ {"patch"} :
            LET hunks == CommitHunks(plan, sha)
                out   == ApplyHunksAsFixup(repo, hunks, sha, inj)
                reset == ResetFiles(repo, hunks, 1, inj = "checkout")
                apply == GitApplyIndex(reset.repo, Range(hunks), inj = "apply")
                oldFails == \E k \in 1..Len(hunks) :
                               ~hunks[k].IsNew /\ RestoreFails(repo, hunks[k], inj)
            IN  /\ oldFails => (out.err /\ out.repo.head = repo.head)
                /\ (~oldFails /\ apply.err) =>
                       (out.err /\ out.repo.head = repo.head)
                /\ ~oldFails =>
                       /\ ~reset.err
                       /\ out = IF apply.err THEN apply
                                ELSE CreateFixupCommit(apply.repo, sha,
                                                       inj = "commit")

\* Step 10 failed on a target that has a hunk on a pre-existing file, and
\* HEAD has no fixup commit for that target.
C27_Witness ==
    /\ mode = "absorb" /\ run.pc = "failed" /\ injected
    /\ Len(attempts) >= 1
    /\ LET last == attempts[Len(attempts)]
       IN  /\ last.err
           /\ \E k \in 1..Len(plan.Assignments) :
                 /\ plan.Assignments[k].CommitSHA = last.target
                 /\ ~plan.Assignments[k].Hunk.IsNew
           /\ \A k \in 1..Len(repo.head) : repo.head[k].target # last.target


(***************************************************************************)
(* C28.  UndoAbsorb and the stash.  An undo attempts git stash pop only    *)
(* when the state record carries a stash id, and a stash it takes off the  *)
(* stash list is the one the record names, whatever is on top of the list. *)
(***************************************************************************)
StashAttempted(log) == \E k \in 1..Len(log) : log[k].step = "stash"

Without(s, x) == LET Other(y) == y # x IN SelectSeq(s, Other)

C28_UndoReappliesRecordedStash ==
    [][(mode = "undo" /\ run'.cmd = "undo") =>
          /\ StashAttempted(run'.log) =>
                 (repo.stateFile # <<>> /\ repo.stateFile[1].StashSHA # <<>>)
          /\ (repo'.stash # repo.stash) =>
                 /\ repo.stateFile # <<>>
                 /\ repo.stateFile[1].StashSHA # <<>>
                 /\ repo'.stash = Without(repo.stash, repo.stateFile[1].StashSHA[1])
      ]_vars


(***************************************************************************)
(* C29.  A failed undo can be run again.  When the checkout of the         *)
(* recorded branch or the reset to the backup ref fails, UndoAbsorb        *)
(* returns an error, and the refs (the backup ref among them) and the      *)
(* state record are what they were before the call.                        *)
(***************************************************************************)
StepFailed(log, name) ==
    \E k \in 1..Len(log) : log[k].step = name /\ ~log[k].ok

C29_FailedUndoKeepsRefAndRecord ==
    [][(/\ mode = "undo" /\ run'.cmd = "undo"
        /\ (StepFailed(run'.log, "checkout") \/ StepFailed(run'.log, "reset"))) =>
          /\ run'.err
          /\ repo'.refs = repo.refs
          /\ repo'.stateFile = repo.stateFile
          /\ repo'.stateFile # <<>>
      ]_vars

\* The reset failed after a successful checkout; the record and its backup
\* ref are still there.
C29_Witness ==
    /\ mode = "undo" /\ run.cmd = "undo" /\ run.err
    /\ StepFailed(run.log, "reset")
    /\ repo.stateFile # <<>>
    /\ \E x \in repo.refs : x.name = repo.stateFile[1].BackupRef


(***************************************************************************)
(* C30.  The undo record round trip.  For every AbsorbState whose string   *)
(* fields hold no line break (neither a line feed nor a carriage return),  *)
(* LoadAbsorbState after SaveAbsorbState succeeds and returns the same     *)
(* original head, backup ref, branch, timestamp, stash id and operations   *)
(* in the same order, also when lines with unknown keys or with the        *)
(* obsolete backup_branch key were added to the file in between.           *)
(***************************************************************************)
NoLineBreakIn(s) == \A k \in 1..Len(s) : s[k] \notin {LF, CR}

NoLineBreaks(state) ==
    /\ NoLineBreakIn(state.OriginalHEAD)
    /\ NoLineBreakIn(state.BackupRef)
    /\ NoLineBreakIn(state.CurrentBranch)
    /\ NoLineBreakIn(state.StashSHA)
    /\ \A k \in 1..Len(state.Operations) : NoLineBreakIn(state.Operations[k])

C30_RecordRoundTrip ==
    (mode = "record" /\ undoFile.pc = "loaded" /\ NoLineBreaks(undoFile.state)) =>
        /\ ~undoFile.loaded[1].err
        /\ undoFile.loaded[1].state = <<undoFile.state>>


\* The line of the file that starts after its first k pieces.
LineFrom(file, k) ==
    LET ends == {j \in (k + 1)..Len(file) : file[j] = LF}
        stop == IF ends = {} THEN Len(file) + 1
                ELSE CHOOSE j \in ends : \A i \in ends : j <= i
    IN  SubSeq(file, k + 1, stop - 1)

AllLinesFit(file) ==
    \A k \in LineStarts(file) : StrLen(LineFrom(file, k)) < MaxScanTokenSize

\* C30, amended: the round trip of C30 for the records all of whose lines,
\* the added ones included, are shorter than MaxScanTokenSize bytes.
C30_RecordRoundTripShortLines ==
    (/\ mode = "record" /\ undoFile.pc = "loaded"
     /\ NoLineBreaks(undoFile.state) /\ AllLinesFit(undoFile.file)) =>
        /\ ~undoFile.loaded[1].err
        /\ undoFile.loaded[1].state = <<undoFile.state>>

\* A record with a stash id, "=" inside a value, two operations and a line
\* of another writer was loaded.
C30_Witness ==
    /\ mode = "record" /\ undoFile.pc = "loaded"
    /\ NoLineBreaks(undoFile.state) /\ AllLinesFit(undoFile.file)
    /\ undoFile.foreign = 1
    /\ undoFile.state.StashSHA # <<>>
    /\ EQ \in Range(undoFile.state.BackupRef)
    /\ Len(undoFile.state.Operations) = 2
    /\ undoFile.loaded[1].state = <<undoFile.state>>

=============================================================================
